---- MODULE Spec2Model ----
(***************************************************************************)
(* A model of the typed value-interchange library: the typed values, the   *)
(* records they are converted to before serialisation, the serde-derived   *)
(* (de)serialisation of those records to and from a CBOR map, and the      *)
(* builders.                                                               *)
(*                                                                         *)
(* Strings are sequences of tokens, so that renaming a field, formatting a *)
(* message and looking for a name inside a message are computations:       *)
(* "typed-type" is <<"typed", "-", "type">>, and format! is \o.            *)
(* A CBOR map is a function from keys to CBOR values: the order of the     *)
(* entries of a buffer and duplicate keys are not modelled.                *)
(* The f64 and i64 values of the codec are drawn from 0..MaxNum; the f64   *)
(* of the arithmetic of Duration is a binary floating point number.        *)
(***************************************************************************)
EXTENDS Integers, Sequences, FiniteSets, TLC

\* Numbers (f64 and i64 payloads) range over 0..MaxNum.
MaxNum == 1
\* Gradients hold at most MaxStops stops.
MaxStops == 2

Num == 0..MaxNum

\* The n-th payload after x, wrapping: gives the fields of one value
\* different payloads.
Rot(x, i) == (x + i) % (MaxNum + 1)

---------------------------------------------------------------------------
\* Identifiers are rendered by serde from their words.

\* The words of a Rust identifier (split at "_", or at the capitals of a
\* variant name, lower-cased).
Words(ident) ==
    CASE ident = "typed_type" -> <<"typed", "type">>
      [] ident = "typwire_type" -> <<"typwire", "type">>
      [] ident = "top_left" -> <<"top", "left">>
      [] ident = "top_right" -> <<"top", "right">>
      [] ident = "bottom_left" -> <<"bottom", "left">>
      [] ident = "bottom_right" -> <<"bottom", "right">>
      [] ident = "focal_center" -> <<"focal", "center">>
      [] ident = "focal_radius" -> <<"focal", "radius">>
      [] ident = "LinearRgb" -> <<"linear", "rgb">>
      [] ident = "Luma" -> <<"luma">>
      [] ident = "Oklab" -> <<"oklab">>
      [] ident = "Oklch" -> <<"oklch">>
      [] ident = "Rgb" -> <<"rgb">>
      [] ident = "Cmyk" -> <<"cmyk">>
      [] ident = "Hsl" -> <<"hsl">>
      [] ident = "Hsv" -> <<"hsv">>
      [] ident = "Linear" -> <<"linear">>
      [] ident = "Radial" -> <<"radial">>
      [] ident = "Conic" -> <<"conic">>
      [] OTHER -> <<ident>>

\* serde rename_all = "kebab-case": the words joined by "-".
RECURSIVE KebabCase(_)
KebabCase(words) ==
    IF Len(words) <= 1 THEN words
    ELSE <<Head(words), "-">> \o KebabCase(Tail(words))

\* No rename_all: the Rust field name itself, the words joined by "_".
RECURSIVE SnakeCase(_)
SnakeCase(words) ==
    IF Len(words) <= 1 THEN words
    ELSE <<Head(words), "_">> \o SnakeCase(Tail(words))

\* The key serde gives a field or a variant under rename_all = mode.
Rename(mode, ident) ==
    IF mode = "kebab-case" THEN KebabCase(Words(ident))
    ELSE SnakeCase(Words(ident))

\* Option<T>
None == <<>>
Some(x) == <<x>>
IsSome(o) == Len(o) = 1
\* Option::or / Option::or_else
Or(a, b) == IF IsSome(a) THEN a ELSE b

---------------------------------------------------------------------------
\* CBOR values, as ciborium reads and writes them.

Null == [t |-> "null"]
Integer(n) == [t |-> "int", v |-> n]
Float(n) == [t |-> "float", v |-> n]
Text(s) == [t |-> "text", v |-> s]
Array(s) == [t |-> "array", v |-> s]
Map(f) == [t |-> "map", v |-> f]

\* Result<T, String>; kind records which code path made the error.
Ok(v) == [ok |-> TRUE, val |-> v]
Err(kind, msg) == [ok |-> FALSE, kind |-> kind, msg |-> msg]

\* A variant of MissingFieldError that reports the absent key the way a
\* TryFrom reports its refusal.
MissingFieldError_Custom(key) ==
    [ok |-> FALSE, kind |-> "custom", msg |-> <<"missing field ">> \o key]
\* serde::de::Error::missing_field
MissingFieldError(key) ==
    Err("missing_field", <<"missing field ">> \o key)
\* serde::de::Error::invalid_type
InvalidTypeError(b, expected) ==
    Err("invalid_type", <<"invalid type: ", b.t, ", expected ", expected>>)
\* serde::de::Error::unknown_variant
UnknownVariantError(name) ==
    Err("unknown_variant", <<"unknown variant ">> \o name)
\* serde::de::Error::custom, as #[serde(try_from)] applies it to the Err of
\* TryFrom.
CustomError(msg) == Err("custom", msg)
\* The error of a derived untagged enum when no alternative matches.
UntaggedError(enum) ==
    Err("untagged",
        <<"data did not match any variant of untagged enum ", enum>>)

---------------------------------------------------------------------------
\* The typed values. A struct is a record of its Rust fields; an enum value
\* is [variant, value]; a unit variant is its name.

AngleNew(radians) == [radians |-> radians]
\* A variant of RatioNew that clamps the ratio to [0, 1].
RatioNew_Clamped(ratio) ==
    [ratio |-> IF ratio < 0 THEN 0 ELSE IF ratio > 1 THEN 1 ELSE ratio]
RatioNew(ratio) == [ratio |-> ratio]
LengthNew(points) == [points |-> points]
DurationNew(seconds) == [seconds |-> seconds]
TypeNew(ty) == [ty |-> ty]
VersionNew(major, minor, patch, revision, build) ==
    [major |-> major, minor |-> minor, patch |-> patch,
     revision |-> revision, build |-> build]
CenterNew(x, y) == [x |-> x, y |-> y]
StopNew(color, offset) == [color |-> color, offset |-> offset]
RadiusNew(top_left, top_right, bottom_left, bottom_right) ==
    [top_left |-> top_left, top_right |-> top_right,
     bottom_left |-> bottom_left, bottom_right |-> bottom_right]

\* const TYPE_NAME of each tagged record's file.
TYPE_NAME(ty) ==
    CASE ty = "Angle" -> <<"angle">>
      [] ty = "Ratio" -> <<"ratio">>
      [] ty = "Length" -> <<"length">>
      [] ty = "Duration" -> <<"duration">>
      [] ty = "DateTime" -> <<"datetime">>
      [] ty = "Version" -> <<"version">>
      [] ty = "Type" -> <<"type">>

\* Type descriptors of the fields.
Ty(name) == [k |-> name]
OptionOf(ty) == [k |-> "Option", of |-> ty]
VecOf(ty) == [k |-> "Vec", of |-> ty]
Field(name, ty) == [name |-> name, ty |-> ty]

\* The fields of every struct that derives Serialize and Deserialize, in
\* declaration order.
AngleCbor == <<Field("typed_type", Ty("String")), Field("radians", Ty("f64"))>>
RatioCbor == <<Field("typwire_type", Ty("String")), Field("ratio", Ty("f64"))>>
LengthCbor == <<Field("typwire_type", Ty("String")), Field("points", Ty("f64"))>>
DurationCbor == <<Field("typed_type", Ty("String")), Field("seconds", Ty("f64"))>>
TypeCbor == <<Field("typed_type", Ty("String")), Field("ty", Ty("String"))>>
DateTimeCbor ==
    <<Field("typed_type", Ty("String")),
      Field("year", OptionOf(Ty("i64"))), Field("month", OptionOf(Ty("i64"))),
      Field("day", OptionOf(Ty("i64"))), Field("hour", OptionOf(Ty("i64"))),
      Field("minute", OptionOf(Ty("i64"))),
      Field("second", OptionOf(Ty("i64")))>>
VersionCbor ==
    <<Field("typed_type", Ty("String")),
      Field("major", Ty("i64")), Field("minor", Ty("i64")),
      Field("patch", Ty("i64")), Field("revision", Ty("i64")),
      Field("build", Ty("i64"))>>
\* A variant of RadiusCbor whose first corner is a Length, not an Option.
RadiusCbor_RequiredCorner ==
    <<Field("top_left", Ty("Length")),
      Field("top_right", OptionOf(Ty("Length"))),
      Field("bottom_left", OptionOf(Ty("Length"))),
      Field("bottom_right", OptionOf(Ty("Length"))),
      Field("left", OptionOf(Ty("Length"))),
      Field("top", OptionOf(Ty("Length"))),
      Field("right", OptionOf(Ty("Length"))),
      Field("bottom", OptionOf(Ty("Length"))),
      Field("rest", OptionOf(Ty("Length")))>>
RadiusCbor ==
    <<Field("top_left", OptionOf(Ty("Length"))),
      Field("top_right", OptionOf(Ty("Length"))),
      Field("bottom_left", OptionOf(Ty("Length"))),
      Field("bottom_right", OptionOf(Ty("Length"))),
      Field("left", OptionOf(Ty("Length"))),
      Field("top", OptionOf(Ty("Length"))),
      Field("right", OptionOf(Ty("Length"))),
      Field("bottom", OptionOf(Ty("Length"))),
      Field("rest", OptionOf(Ty("Length")))>>
Center == <<Field("x", Ty("Ratio")), Field("y", Ty("Ratio"))>>
Stop == <<Field("color", Ty("Color")), Field("offset", Ty("Ratio"))>>
Luma == <<Field("lightness", Ty("Ratio")), Field("alpha", Ty("Ratio"))>>
Oklab ==
    <<Field("lightness", Ty("Ratio")), Field("a", Ty("Ratio")),
      Field("b", Ty("Ratio")), Field("alpha", Ty("Ratio"))>>
Oklch ==
    <<Field("lightness", Ty("Ratio")), Field("chroma", Ty("Ratio")),
      Field("hue", Ty("Angle")), Field("alpha", Ty("Ratio"))>>
LinearRgb ==
    <<Field("r", Ty("Ratio")), Field("g", Ty("Ratio")),
      Field("b", Ty("Ratio")), Field("alpha", Ty("Ratio"))>>
Rgb ==
    <<Field("r", Ty("Ratio")), Field("g", Ty("Ratio")),
      Field("b", Ty("Ratio")), Field("alpha", Ty("Ratio"))>>
Cmyk ==
    <<Field("cyan", Ty("Ratio")), Field("magenta", Ty("Ratio")),
      Field("yellow", Ty("Ratio")), Field("key", Ty("Ratio"))>>
Hsl ==
    <<Field("hue", Ty("Angle")), Field("saturation", Ty("Ratio")),
      Field("lightness", Ty("Ratio")), Field("alpha", Ty("Ratio"))>>
Hsv ==
    <<Field("hue", Ty("Angle")), Field("saturation", Ty("Ratio")),
      Field("value", Ty("Ratio")), Field("alpha", Ty("Ratio"))>>
\* The struct variants of Gradient.
GradientLinear ==
    <<Field("stops", VecOf(Ty("Stop"))), Field("angle", Ty("Angle")),
      Field("space", Ty("ColorSpace"))>>
GradientRadial ==
    <<Field("stops", VecOf(Ty("Stop"))), Field("center", Ty("Center")),
      Field("radius", Ty("Ratio")), Field("focal_center", Ty("Center")),
      Field("focal_radius", Ty("Ratio")), Field("space", Ty("ColorSpace"))>>
\* A variant of GradientConic whose stops are not part of the encoding.
GradientConic_SkipsStops ==
    <<Field("angle", Ty("Angle")),
      Field("center", Ty("Center")), Field("space", Ty("ColorSpace"))>>
GradientConic ==
    <<Field("stops", VecOf(Ty("Stop"))), Field("angle", Ty("Angle")),
      Field("center", Ty("Center")), Field("space", Ty("ColorSpace"))>>

Structs ==
    {"AngleCbor", "RatioCbor", "LengthCbor", "DurationCbor", "TypeCbor",
     "DateTimeCbor", "VersionCbor", "RadiusCbor", "Center", "Stop", "Luma",
     "Oklab", "Oklch", "LinearRgb", "Rgb", "Cmyk", "Hsl", "Hsv",
     "Gradient::Linear", "Gradient::Radial", "Gradient::Conic"}

Fields(struct) ==
    CASE struct = "AngleCbor" -> AngleCbor
      [] struct = "RatioCbor" -> RatioCbor
      [] struct = "LengthCbor" -> LengthCbor
      [] struct = "DurationCbor" -> DurationCbor
      [] struct = "TypeCbor" -> TypeCbor
      [] struct = "DateTimeCbor" -> DateTimeCbor
      [] struct = "VersionCbor" -> VersionCbor
      [] struct = "RadiusCbor" -> RadiusCbor
      [] struct = "Center" -> Center
      [] struct = "Stop" -> Stop
      [] struct = "Luma" -> Luma
      [] struct = "Oklab" -> Oklab
      [] struct = "Oklch" -> Oklch
      [] struct = "LinearRgb" -> LinearRgb
      [] struct = "Rgb" -> Rgb
      [] struct = "Cmyk" -> Cmyk
      [] struct = "Hsl" -> Hsl
      [] struct = "Hsv" -> Hsv
      [] struct = "Gradient::Linear" -> GradientLinear
      [] struct = "Gradient::Radial" -> GradientRadial
      [] struct = "Gradient::Conic" -> GradientConic

\* A variant of RenameAll without any rename_all.
RenameAll_None(struct) == "none"
\* #[serde(rename_all = ...)] of each struct (rename_all_fields for the
\* variants of Gradient); Center, Stop and the colour structs have none.
RenameAll(struct) ==
    IF struct \in {"AngleCbor", "RatioCbor", "LengthCbor", "DurationCbor",
                   "TypeCbor", "DateTimeCbor", "VersionCbor", "RadiusCbor",
                   "Gradient::Linear", "Gradient::Radial", "Gradient::Conic"}
    THEN "kebab-case"
    ELSE "none"

\* The key of a field in the encoded map.
KeyOf(struct, field) == Rename(RenameAll(struct), field)

---------------------------------------------------------------------------
\* The conversions #[serde(into = ..., try_from = ...)] names.

AngleCborFrom(angle) ==
    [typed_type |-> TYPE_NAME("Angle"), radians |-> angle.radians]
AngleTryFrom(value) ==
    IF value.typed_type # TYPE_NAME("Angle")
    THEN CustomError(<<"Invalid ", "typed", "-", "type", " for ", "Angle", ": ">>
                     \o value.typed_type)
    ELSE Ok(AngleNew(value.radians))

RatioCborFrom(value) ==
    [typwire_type |-> TYPE_NAME("Ratio"), ratio |-> value.ratio]
\* A variant of RatioTryFrom without the comparison of the discriminant.
RatioTryFrom_Unchecked(value) == Ok(RatioNew(value.ratio))
RatioTryFrom(value) ==
    IF value.typwire_type # TYPE_NAME("Ratio")
    THEN CustomError(<<"Invalid ", "typwire", "-", "type", " for ", "Ratio", ": ">>
                     \o value.typwire_type)
    ELSE Ok(RatioNew(value.ratio))

LengthCborFrom(value) ==
    [typwire_type |-> TYPE_NAME("Length"), points |-> value.points]
\* A variant of LengthTryFrom without the comparison of the discriminant.
LengthTryFrom_Unchecked(value) == Ok(LengthNew(value.points))
LengthTryFrom(value) ==
    IF value.typwire_type # TYPE_NAME("Length")
    THEN CustomError(<<"Invalid ", "typwire", "-", "type", " for ", "Length", ": ">>
                     \o value.typwire_type)
    ELSE Ok(LengthNew(value.points))

DurationCborFrom(value) ==
    [typed_type |-> TYPE_NAME("Duration"), seconds |-> value.seconds]
DurationTryFrom(value) ==
    IF value.typed_type # TYPE_NAME("Duration")
    THEN CustomError(<<"Invalid ", "typed", "-", "type", " for ", "Duration", ": ">>
                     \o value.typed_type)
    ELSE Ok([seconds |-> value.seconds])

TypeCborFrom(value) ==
    [typed_type |-> TYPE_NAME("Type"), ty |-> value.ty]
TypeTryFrom(value) ==
    IF value.typed_type # TYPE_NAME("Type")
    THEN CustomError(<<"Invalid ", "typed", "-", "type", " for ", "Type", ": ">>
                     \o value.typed_type)
    ELSE Ok(TypeNew(value.ty))

\* A variant of DateTimeCborFrom that writes month and day into each
\* other's field.
DateTimeCborFrom_SwapsMonthDay(value) ==
    [typed_type |-> TYPE_NAME("DateTime"),
     year |-> value.year, month |-> value.day, day |-> value.month,
     hour |-> value.hour, minute |-> value.minute, second |-> value.second]
DateTimeCborFrom(value) ==
    [typed_type |-> TYPE_NAME("DateTime"),
     year |-> value.year, month |-> value.month, day |-> value.day,
     hour |-> value.hour, minute |-> value.minute, second |-> value.second]
\* A variant of DateTimeTryFrom that refuses a month outside 1..12.
DateTimeTryFrom_ValidatesMonth(value) ==
    IF value.typed_type # TYPE_NAME("DateTime")
    THEN CustomError(<<"Invalid ", "typed", "-", "type", " for ", "DateTime", ": ">>
                     \o value.typed_type)
    ELSE IF IsSome(value.month) /\ value.month[1] \notin 1..12
    THEN CustomError(<<"Invalid ", "month">>)
    ELSE Ok([year |-> value.year, month |-> value.month, day |-> value.day,
             hour |-> value.hour, minute |-> value.minute,
             second |-> value.second])
DateTimeTryFrom(value) ==
    IF value.typed_type # TYPE_NAME("DateTime")
    THEN CustomError(<<"Invalid ", "typed", "-", "type", " for ", "DateTime", ": ">>
                     \o value.typed_type)
    ELSE Ok([year |-> value.year, month |-> value.month, day |-> value.day,
             hour |-> value.hour, minute |-> value.minute,
             second |-> value.second])

VersionCborFrom(value) ==
    [typed_type |-> TYPE_NAME("Version"),
     major |-> value.major, minor |-> value.minor, patch |-> value.patch,
     revision |-> value.revision, build |-> value.build]
\* A variant of VersionTryFrom that compares with the TYPE_NAME of type.rs.
VersionTryFrom_WrongName(value) ==
    IF value.typed_type # TYPE_NAME("Type")
    THEN CustomError(<<"Invalid ", "typed", "-", "type", " for ", "Version", ": ">>
                     \o value.typed_type)
    ELSE Ok(VersionNew(value.major, value.minor, value.patch,
                       value.revision, value.build))
VersionTryFrom(value) ==
    IF value.typed_type # TYPE_NAME("Version")
    THEN CustomError(<<"Invalid ", "typed", "-", "type", " for ", "Version", ": ">>
                     \o value.typed_type)
    ELSE Ok(VersionNew(value.major, value.minor, value.patch,
                       value.revision, value.build))

\* From<Radius> for RadiusCbor
\* A variant of RadiusCborFrom that writes four equal corners as rest.
RadiusCborFrom_EqualAsRest(value) ==
    IF /\ IsSome(value.top_left)
       /\ value.top_right = value.top_left
       /\ value.bottom_left = value.top_left
       /\ value.bottom_right = value.top_left
    THEN [top_left |-> None, top_right |-> None, bottom_left |-> None,
          bottom_right |-> None, left |-> None, top |-> None,
          right |-> None, bottom |-> None, rest |-> value.top_left]
    ELSE [top_left |-> value.top_left, top_right |-> value.top_right,
          bottom_left |-> value.bottom_left,
          bottom_right |-> value.bottom_right,
          left |-> None, top |-> None, right |-> None, bottom |-> None,
          rest |-> None]
\* A variant of RadiusCborFrom that writes the two top corners into each
\* other's field.
RadiusCborFrom_SwapsTop(value) ==
    [top_left |-> value.top_right, top_right |-> value.top_left,
     bottom_left |-> value.bottom_left, bottom_right |-> value.bottom_right,
     left |-> None, top |-> None, right |-> None, bottom |-> None,
     rest |-> None]
RadiusCborFrom(value) ==
    [top_left |-> value.top_left, top_right |-> value.top_right,
     bottom_left |-> value.bottom_left, bottom_right |-> value.bottom_right,
     left |-> None, top |-> None, right |-> None, bottom |-> None,
     rest |-> None]
\* From<RadiusCbor> for Radius
\* A variant of RadiusFrom in which right beats top for top_right.
RadiusFrom_RightFirst(value) ==
    RadiusNew(
        Or(Or(Or(value.top_left, value.left), value.top), value.rest),
        Or(Or(Or(value.top_right, value.right), value.top), value.rest),
        Or(Or(Or(value.bottom_left, value.left), value.bottom), value.rest),
        Or(Or(Or(value.bottom_right, value.right), value.bottom), value.rest))
RadiusFrom(value) ==
    RadiusNew(
        Or(Or(Or(value.top_left, value.left), value.top), value.rest),
        Or(Or(Or(value.top_right, value.top), value.right), value.rest),
        Or(Or(Or(value.bottom_left, value.left), value.bottom), value.rest),
        Or(Or(Or(value.bottom_right, value.right), value.bottom), value.rest))

\* The tagged records and the struct each is converted to and from.
Tagged ==
    {"Angle", "Ratio", "Length", "Duration", "DateTime", "Version", "Type"}
CborOf(ty) ==
    CASE ty = "Angle" -> "AngleCbor"
      [] ty = "Ratio" -> "RatioCbor"
      [] ty = "Length" -> "LengthCbor"
      [] ty = "Duration" -> "DurationCbor"
      [] ty = "DateTime" -> "DateTimeCbor"
      [] ty = "Version" -> "VersionCbor"
      [] ty = "Type" -> "TypeCbor"
      [] ty = "Radius" -> "RadiusCbor"
\* serde into
Into(ty, value) ==
    CASE ty = "Angle" -> AngleCborFrom(value)
      [] ty = "Ratio" -> RatioCborFrom(value)
      [] ty = "Length" -> LengthCborFrom(value)
      [] ty = "Duration" -> DurationCborFrom(value)
      [] ty = "DateTime" -> DateTimeCborFrom(value)
      [] ty = "Version" -> VersionCborFrom(value)
      [] ty = "Type" -> TypeCborFrom(value)
      [] ty = "Radius" -> RadiusCborFrom(value)
\* serde try_from (from, for Radius)
\* A variant of TryFrom that refuses a Radius without a corner.
TryFrom_RadiusNeedsCorner(ty, value) ==
    CASE ty = "Angle" -> AngleTryFrom(value)
      [] ty = "Ratio" -> RatioTryFrom(value)
      [] ty = "Length" -> LengthTryFrom(value)
      [] ty = "Duration" -> DurationTryFrom(value)
      [] ty = "DateTime" -> DateTimeTryFrom(value)
      [] ty = "Version" -> VersionTryFrom(value)
      [] ty = "Type" -> TypeTryFrom(value)
      [] ty = "Radius" ->
            IF RadiusFrom(value) = RadiusNew(None, None, None, None)
            THEN CustomError(<<"Empty ", "Radius">>)
            ELSE Ok(RadiusFrom(value))
TryFrom(ty, value) ==
    CASE ty = "Angle" -> AngleTryFrom(value)
      [] ty = "Ratio" -> RatioTryFrom(value)
      [] ty = "Length" -> LengthTryFrom(value)
      [] ty = "Duration" -> DurationTryFrom(value)
      [] ty = "DateTime" -> DateTimeTryFrom(value)
      [] ty = "Version" -> VersionTryFrom(value)
      [] ty = "Type" -> TypeTryFrom(value)
      [] ty = "Radius" -> Ok(RadiusFrom(value))

---------------------------------------------------------------------------
\* The enums.

\* A variant of ColorTag: a key no other type uses.
ColorTag_Dedicated == <<"color", "-", "type">>
\* #[serde(tag = "typwire-type")] of Color
ColorTag == <<"typwire", "-", "type">>
\* A variant of GradientTag: the key Color uses.
GradientTag_Typwire == <<"typwire", "-", "type">>
\* #[serde(tag = "typed-type")] of Gradient
GradientTag == <<"typed", "-", "type">>

Variant(variant, name, struct) ==
    [variant |-> variant, name |-> name, struct |-> struct]
\* A variant of Color whose LinearRgb has no rename.
Color_LinearRgbUnrenamed ==
    <<Variant("Luma", <<"color", "-", "luma">>, "Luma"),
      Variant("Oklab", <<"color", "-", "oklab">>, "Oklab"),
      Variant("Oklch", <<"color", "-", "oklch">>, "Oklch"),
      Variant("LinearRgb", <<"LinearRgb">>, "LinearRgb"),
      Variant("Rgb", <<"color", "-", "rgb">>, "Rgb"),
      Variant("Cmyk", <<"color", "-", "cmyk">>, "Cmyk"),
      Variant("Hsl", <<"color", "-", "hsl">>, "Hsl"),
      Variant("Hsv", <<"color", "-", "hsv">>, "Hsv")>>
\* Color: each variant wraps the struct of its name and is renamed.
Color ==
    <<Variant("Luma", <<"color", "-", "luma">>, "Luma"),
      Variant("Oklab", <<"color", "-", "oklab">>, "Oklab"),
      Variant("Oklch", <<"color", "-", "oklch">>, "Oklch"),
      Variant("LinearRgb", <<"color", "-", "linear", "-", "rgb">>, "LinearRgb"),
      Variant("Rgb", <<"color", "-", "rgb">>, "Rgb"),
      Variant("Cmyk", <<"color", "-", "cmyk">>, "Cmyk"),
      Variant("Hsl", <<"color", "-", "hsl">>, "Hsl"),
      Variant("Hsv", <<"color", "-", "hsv">>, "Hsv")>>
\* Gradient: struct variants, rename_all = "kebab-case".
Gradient ==
    <<Variant("Linear", Rename("kebab-case", "Linear"), "Gradient::Linear"),
      Variant("Radial", Rename("kebab-case", "Radial"), "Gradient::Radial"),
      Variant("Conic", Rename("kebab-case", "Conic"), "Gradient::Conic")>>
\* ColorSpace: unit variants, rename_all = "kebab-case".
ColorSpace ==
    <<"Luma", "Oklab", "Oklch", "LinearRgb", "Rgb", "Cmyk", "Hsl", "Hsv">>
\* #[default] of ColorSpace
ColorSpaceDefault == "Oklab"

TagOf(enum) == IF enum = "Color" THEN ColorTag ELSE GradientTag
VariantsOf(enum) == IF enum = "Color" THEN Color ELSE Gradient

\* The untagged enums: their alternatives in declaration order.
ColorGradient == <<"Color", "Gradient">>
\* A variant of LengthRadius that declares Radius before Length.
LengthRadius_RadiusFirst == <<"Radius", "Length">>
LengthRadius == <<"Length", "Radius">>
AlternativesOf(enum) ==
    IF enum = "ColorGradient" THEN ColorGradient ELSE LengthRadius

---------------------------------------------------------------------------
\* serde's derived Serialize, written by ciborium.

Indices(seq) == 1..Len(seq)
\* The index of the entry of a table whose rendering is the given one.
IndexOfKey(struct, key) ==
    CHOOSE i \in Indices(Fields(struct)) : KeyOf(struct, Fields(struct)[i].name) = key
KeysOf(struct) ==
    {KeyOf(struct, Fields(struct)[i].name) : i \in Indices(Fields(struct))}
VariantNamed(enum, variant) ==
    VariantsOf(enum)[CHOOSE i \in Indices(VariantsOf(enum)) :
                         VariantsOf(enum)[i].variant = variant]

RECURSIVE Serialize(_, _)
Serialize(ty, value) ==
    CASE ty.k = "f64" -> Float(value)
      [] ty.k = "i64" -> Integer(value)
      [] ty.k = "String" -> Text(value)
      [] ty.k = "Option" ->
            IF IsSome(value) THEN Serialize(ty.of, value[1]) ELSE Null
      [] ty.k = "Vec" ->
            Array([i \in Indices(value) |-> Serialize(ty.of, value[i])])
      [] ty.k \in Structs ->
            Map([key \in KeysOf(ty.k) |->
                    LET f == Fields(ty.k)[IndexOfKey(ty.k, key)]
                    IN  Serialize(f.ty, value[f.name])])
      [] ty.k \in Tagged \cup {"Radius"} ->
            Serialize(Ty(CborOf(ty.k)), Into(ty.k, value))
      [] ty.k \in {"Color", "Gradient"} ->
            LET v == VariantNamed(ty.k, value.variant)
            IN  Map((TagOf(ty.k) :> Text(v.name))
                    @@ Serialize(Ty(v.struct), value.value).v)
      [] ty.k = "ColorSpace" -> Text(Rename("kebab-case", value))
      [] ty.k \in {"ColorGradient", "LengthRadius"} ->
            Serialize(Ty(value.variant), value.value)

---------------------------------------------------------------------------
\* serde's derived Deserialize, read by ciborium.

\* The first error of a sequence of results, none when all are Ok.
AllOk(results) == \A i \in Indices(results) : results[i].ok
FirstError(results) ==
    results[CHOOSE i \in Indices(results) :
                /\ ~results[i].ok
                /\ \A j \in 1..(i - 1) : results[j].ok]

\* A variant of missing_field as under #[serde(default)]: the default value
\* of the field's type.
missing_field_Default(ty, key) ==
    CASE ty.k = "Option" -> Ok(None)
      [] ty.k = "String" -> Ok(<<>>)
      [] ty.k \in {"f64", "i64"} -> Ok(0)
      [] OTHER -> MissingFieldError(key)
\* What a derived struct takes for a field the map does not hold: None for
\* an Option, an error for any other field (no field has serde(default)).
missing_field(ty, key) ==
    IF ty.k = "Option" THEN Ok(None) ELSE MissingFieldError(key)

RECURSIVE Deserialize(_, _)
Deserialize(ty, b) ==
    CASE ty.k = "f64" ->
            IF b.t = "float" THEN Ok(b.v) ELSE InvalidTypeError(b, "float")
      [] ty.k = "i64" ->
            IF b.t = "int" THEN Ok(b.v) ELSE InvalidTypeError(b, "integer")
      [] ty.k = "String" ->
            IF b.t = "text" THEN Ok(b.v) ELSE InvalidTypeError(b, "str")
      [] ty.k = "Option" ->
            IF b.t = "null" THEN Ok(None)
            ELSE LET r == Deserialize(ty.of, b)
                 IN  IF r.ok THEN Ok(Some(r.val)) ELSE r
      [] ty.k = "Vec" ->
            IF b.t # "array" THEN InvalidTypeError(b, "array")
            ELSE LET r == [i \in Indices(b.v) |-> Deserialize(ty.of, b.v[i])]
                 IN  IF AllOk(r) THEN Ok([i \in Indices(r) |-> r[i].val])
                     ELSE FirstError(r)
      [] ty.k \in Structs ->
            \* Every field is read, a missing Option field is None, any
            \* other missing field is an error; unknown keys are ignored.
            IF b.t # "map" THEN InvalidTypeError(b, "map")
            ELSE LET S == Fields(ty.k)
                     r == [i \in Indices(S) |->
                             LET key == KeyOf(ty.k, S[i].name)
                             IN  IF key \in DOMAIN b.v
                                 THEN Deserialize(S[i].ty, b.v[key])
                                 ELSE missing_field(S[i].ty, key)]
                 IN  IF AllOk(r)
                     THEN Ok([f \in {S[i].name : i \in Indices(S)} |->
                                r[CHOOSE i \in Indices(S) : S[i].name = f].val])
                     ELSE FirstError(r)
      [] ty.k \in Tagged \cup {"Radius"} ->
            \* The whole record is deserialised, then converted.
            LET c == Deserialize(Ty(CborOf(ty.k)), b)
            IN  IF c.ok THEN TryFrom(ty.k, c.val) ELSE c
      [] ty.k \in {"Color", "Gradient"} ->
            \* Internally tagged: the tag selects the variant, the other
            \* entries are its fields.
            IF b.t # "map" THEN InvalidTypeError(b, "map")
            ELSE IF TagOf(ty.k) \notin DOMAIN b.v
            THEN MissingFieldError(TagOf(ty.k))
            ELSE IF b.v[TagOf(ty.k)].t # "text"
            THEN InvalidTypeError(b.v[TagOf(ty.k)], "variant identifier")
            ELSE LET V == VariantsOf(ty.k)
                     tag == b.v[TagOf(ty.k)].v
                     hit == {i \in Indices(V) : V[i].name = tag}
                 IN  IF hit = {} THEN UnknownVariantError(tag)
                     ELSE LET v == V[CHOOSE i \in hit : TRUE]
                              rest == [key \in DOMAIN b.v \ {TagOf(ty.k)} |->
                                          b.v[key]]
                              r == Deserialize(Ty(v.struct), Map(rest))
                          IN  IF r.ok
                              THEN Ok([variant |-> v.variant, value |-> r.val])
                              ELSE r
      [] ty.k = "ColorSpace" ->
            IF b.t # "text" THEN InvalidTypeError(b, "variant identifier")
            ELSE LET hit == {i \in Indices(ColorSpace) :
                               Rename("kebab-case", ColorSpace[i]) = b.v}
                 IN  IF hit = {} THEN UnknownVariantError(b.v)
                     ELSE Ok(ColorSpace[CHOOSE i \in hit : TRUE])
      [] ty.k \in {"ColorGradient", "LengthRadius"} ->
            \* Untagged: the alternatives are tried in declaration order.
            LET A == AlternativesOf(ty.k)
                r == [i \in Indices(A) |-> Deserialize(Ty(A[i]), b)]
                hit == {i \in Indices(A) : r[i].ok}
            IN  IF hit = {} THEN UntaggedError(ty.k)
                ELSE LET i == CHOOSE i \in hit : \A j \in hit : i <= j
                     IN  Ok([variant |-> A[i], value |-> r[i].val])

\* FromBytes::from_bytes
from_bytes(ty, bytes) == Deserialize(Ty(ty), bytes)
\* The inverse path: ciborium's writer on the value's Serialize.
to_bytes(ty, value) == Serialize(Ty(ty), value)

---------------------------------------------------------------------------
\* The values the callers construct.

Types ==
    {"Angle", "Ratio", "Length", "Duration", "DateTime", "Version", "Type",
     "Center", "Stop", "Color", "Gradient", "Radius", "ColorGradient",
     "LengthRadius"}

Strings == {<<"int">>, <<"custom", "-", "type">>}
OptionsOf(S) == {None} \cup {Some(x) : x \in S}

Angles == {AngleNew(n) : n \in Num}
Ratios == {RatioNew(n) : n \in Num}
Lengths == {LengthNew(n) : n \in Num}
Durations == {DurationNew(n) : n \in Num}
TypeTags == {TypeNew(s) : s \in Strings}
Versions ==
    {VersionNew(a, b, Rot(a, 1), Rot(b, 1), Rot(a, 2)) : a, b \in Num}
\* DateTime has public fields: any subset of them may be set.
DateTimePresent ==
    {{}, {"year"}, {"second"}, {"year", "month", "day"},
     {"year", "month", "day", "hour", "minute", "second"}}
DateTimes ==
    {[year |-> IF "year" \in P THEN Some(n) ELSE None,
      month |-> IF "month" \in P THEN Some(Rot(n, 1)) ELSE None,
      day |-> IF "day" \in P THEN Some(Rot(n, 2)) ELSE None,
      hour |-> IF "hour" \in P THEN Some(Rot(n, 3)) ELSE None,
      minute |-> IF "minute" \in P THEN Some(Rot(n, 4)) ELSE None,
      second |-> IF "second" \in P THEN Some(Rot(n, 5)) ELSE None] :
        P \in DateTimePresent, n \in Num}
Centers == {CenterNew(x, y) : x, y \in Ratios}
\* Luma::new, Oklab::new, ...: the i-th channel is the i-th payload after n.
ColorOf(variant, n) ==
    LET S == Fields(variant)
    IN  [variant |-> variant,
         value |-> [f \in {S[i].name : i \in Indices(S)} |->
                      LET i == CHOOSE i \in Indices(S) : S[i].name = f
                      IN  IF S[i].ty.k = "Angle" THEN AngleNew(Rot(n, i))
                          ELSE RatioNew(Rot(n, i))]]
Colors == {ColorOf(Color[i].variant, n) : i \in Indices(Color), n \in Num}
Stops == {StopNew(c, o) : c \in Colors, o \in Ratios}
\* The stops gradients are made of.
StopArgs ==
    {StopNew(ColorOf("Luma", 0), RatioNew(0)),
     StopNew(ColorOf("Hsl", 1), RatioNew(1))}
StopLists == UNION {[1..n -> StopArgs] : n \in 0..MaxStops}
SpaceArgs == {ColorSpaceDefault, "LinearRgb"}
\* Gradient::linear, Gradient::radial, Gradient::conic
GradientLinearNew(stops, angle, space) ==
    [variant |-> "Linear",
     value |-> [stops |-> stops, angle |-> angle, space |-> space]]
GradientRadialNew(stops, center, radius, focal_center, focal_radius, space) ==
    [variant |-> "Radial",
     value |-> [stops |-> stops, center |-> center, radius |-> radius,
                focal_center |-> focal_center,
                focal_radius |-> focal_radius, space |-> space]]
GradientConicNew(stops, angle, center, space) ==
    [variant |-> "Conic",
     value |-> [stops |-> stops, angle |-> angle, center |-> center,
                space |-> space]]
Gradients ==
    {GradientLinearNew(s, AngleNew(n), sp) :
        s \in StopLists, n \in Num, sp \in SpaceArgs}
    \cup {GradientRadialNew(s, CenterNew(RatioNew(n), RatioNew(Rot(n, 1))),
                            RatioNew(Rot(n, 2)),
                            CenterNew(RatioNew(Rot(n, 1)), RatioNew(n)),
                            RatioNew(Rot(n, 1)), sp) :
            s \in StopLists, n \in Num, sp \in SpaceArgs}
    \cup {GradientConicNew(s, AngleNew(n),
                           CenterNew(RatioNew(Rot(n, 1)), RatioNew(n)), sp) :
            s \in StopLists, n \in Num, sp \in SpaceArgs}
Radii ==
    {RadiusNew(a, b, c, d) : a, b, c, d \in OptionsOf(Lengths)}

RECURSIVE Values(_)
Values(ty) ==
    CASE ty = "Angle" -> Angles
      [] ty = "Ratio" -> Ratios
      [] ty = "Length" -> Lengths
      [] ty = "Duration" -> Durations
      [] ty = "DateTime" -> DateTimes
      [] ty = "Version" -> Versions
      [] ty = "Type" -> TypeTags
      [] ty = "Center" -> Centers
      [] ty = "Stop" -> Stops
      [] ty = "Color" -> Colors
      [] ty = "Gradient" -> Gradients
      [] ty = "Radius" -> Radii
      [] ty \in {"ColorGradient", "LengthRadius"} ->
            UNION {{[variant |-> a, value |-> v] : v \in Values(a)} :
                      a \in {AlternativesOf(ty)[i] :
                                i \in Indices(AlternativesOf(ty))}}

---------------------------------------------------------------------------
\* The state: the value a caller holds, the buffer that crosses the
\* boundary, what was done to the buffer on the way, and the result of the
\* last from_bytes.

VARIABLES val, buf, edits, target, res, gb, built, args

codec == <<val, buf, edits, target, res>>
builders == <<gb, built, args>>
vars == <<val, buf, edits, target, res, gb, built, args>>

NoValue == [ty |-> "none"]
NoBuf == [t |-> "none"]
NoRes == [ok |-> FALSE, kind |-> "none", msg |-> <<>>]
\* No gradient builder in hand, nothing built.
NoBuilder == [is |-> "none"]
NoBuilt == [builder |-> NoBuilder]
\* The argument of the latest call of each setter on the builder in hand
\* (history, not a field of the program): none yet.
NoArgs ==
    [angle |-> None, center |-> None, radius |-> None, focal_center |-> None,
     focal_radius |-> None, space |-> None,
     stops |-> <<>>, pushed |-> <<>>, discarded |-> 0]

\* The history of stops(list): the list is the latest given, no stop was
\* pushed since, and the stops held before are counted as discarded.
StopsCalled(stops) ==
    [args EXCEPT !.stops = stops, !.pushed = <<>>, !.discarded = Len(gb.stops)]
\* The history of stop(s): one more stop pushed since stops(list).
StopCalled(stop) == [args EXCEPT !.pushed = Append(@, stop)]

Init ==
    /\ val = NoValue
    /\ buf = NoBuf
    /\ edits = {}
    /\ target = "none"
    /\ res = NoRes
    /\ gb = NoBuilder
    /\ built = NoBuilt
    /\ args = NoArgs

\* A caller constructs a value.
Construct(ty, v) ==
    /\ val = NoValue
    /\ val' = [ty |-> ty, v |-> v]
    /\ buf' = NoBuf
    /\ edits' = {}
    /\ target' = "none"
    /\ res' = NoRes
    /\ UNCHANGED builders

\* The value is encoded into a buffer.
Encode ==
    /\ val # NoValue
    /\ buf = NoBuf
    /\ buf' = to_bytes(val.ty, val.v)
    /\ UNCHANGED <<val, edits>>
    /\ target' = "none"
    /\ res' = NoRes
    /\ UNCHANGED builders

\* The keys under which the tagged records keep their discriminant.
DiscriminantKeys ==
    {KeyOf(CborOf(ty), Fields(CborOf(ty))[1].name) : ty \in Tagged}
WrongNames ==
    {TYPE_NAME("Duration"), TYPE_NAME("Length"), <<"unknown">>,
     <<"color", "-", "rgb">>}
\* The keys of a buffer (none when it is no map).
Keys(b) == IF b.t = "map" THEN DOMAIN b.v ELSE {}
\* A value of another primitive shape than b.
IllShaped(b) == IF b.t = "text" THEN Integer(0) ELSE Text(<<"oops">>)

\* A buffer carries at most one change of its discriminant (retag or
\* rekey) and at most one change of another entry (drop or reshape); a
\* merged map and a map with an unknown entry carry no other change.
Excludes(kind) ==
    CASE kind = "retag" ->
            {"retag", "rekey", "drop", "reshape", "merge", "unknown"}
      [] kind = "rekey" ->
            {"retag", "rekey", "drop", "reshape", "merge", "unknown"}
      [] kind = "drop" -> {"rekey", "drop", "reshape", "merge", "unknown"}
      [] kind = "reshape" -> {"rekey", "drop", "reshape", "merge", "unknown"}
      [] kind = "unknown" ->
            {"retag", "rekey", "drop", "reshape", "merge", "unknown"}

\* The types whose buffers the other side writes by hand.
Editable == Tagged \cup {"Radius", "Color"}

Edited(kind, b) ==
    /\ val # NoValue
    /\ val.ty \in Editable
    /\ buf.t = "map"
    /\ edits \cap Excludes(kind) = {}
    /\ buf' = Map(b)
    /\ edits' = edits \cup {kind}
    /\ UNCHANGED val
    /\ target' = "none"
    /\ res' = NoRes
    /\ UNCHANGED builders

\* The buffers that reach from_bytes need not come from to_bytes: the other
\* side may write another discriminant, ...
Retag(key, name) ==
    /\ key \in Keys(buf)
    /\ buf.v[key] # Text(name)
    /\ Edited("retag", [buf.v EXCEPT ![key] = Text(name)])
\* ... leave an entry out, ...
DropKey(key) ==
    /\ key \in Keys(buf)
    /\ Edited("drop", [k \in DOMAIN buf.v \ {key} |-> buf.v[k]])
\* ... write an entry of another shape, ...
Reshape(key) ==
    /\ key \in Keys(buf)
    /\ Edited("reshape", [buf.v EXCEPT ![key] = IllShaped(buf.v[key])])
\* ... or write the discriminant under the other key.
Rekey(key, other) ==
    /\ key \in Keys(buf)
    /\ other \notin Keys(buf)
    /\ Edited("rekey", [k \in (DOMAIN buf.v \ {key}) \cup {other} |->
                           IF k = other THEN buf.v[key] ELSE buf.v[k]])

\* ... write an entry under a key no type knows, ...
UnknownKey == <<"note">>
AddEntry(key) ==
    /\ key \notin Keys(buf)
    /\ Edited("unknown", buf.v @@ (key :> Text(<<"oops">>)))

\* ... or write the entries of a Gradient into the map of a Color.
MergeArgs ==
    {g \in Gradients : g.value.stops = <<>> /\ g.value.space = ColorSpaceDefault}
Merge(g) ==
    /\ val # NoValue
    /\ val.ty = "Color"
    /\ buf.t = "map"
    /\ edits = {}
    /\ buf' = Map(to_bytes("Gradient", g).v @@ buf.v)
    /\ edits' = {"merge"}
    /\ UNCHANGED val
    /\ target' = "none"
    /\ res' = NoRes
    /\ UNCHANGED builders

\* from_bytes::<ty>(buf)
Decode(ty) ==
    /\ buf # NoBuf
    /\ target' = ty
    /\ res' = from_bytes(ty, buf)
    /\ UNCHANGED <<val, buf, edits>>
    /\ UNCHANGED builders

Next ==
    \/ \E ty \in Types : \E v \in Values(ty) : Construct(ty, v)
    \/ Encode
    \/ \E key \in DiscriminantKeys : \E name \in WrongNames : Retag(key, name)
    \/ \E key \in Keys(buf) : DropKey(key)
    \/ \E key \in Keys(buf) : Reshape(key)
    \/ \E key, other \in DiscriminantKeys : Rekey(key, other)
    \/ \E g \in MergeArgs : Merge(g)
    \/ AddEntry(UnknownKey)
    \/ \E ty \in Types : Decode(ty)

Spec == Init /\ [][Next]_vars

---------------------------------------------------------------------------
\* The gradient builders. A builder is consumed by build; built keeps the
\* builder that was consumed and what build returned.

\* GradientBuilderError::MissingField
MissingField(field) == Err("MissingField", field)

CenterArgs ==
    {CenterNew(RatioNew(0), RatioNew(1)), CenterNew(RatioNew(1), RatioNew(0))}

\* Gradient::linear_builder
linear_builder ==
    /\ gb = NoBuilder
    /\ gb' = [is |-> "linear", stops |-> <<>>, angle |-> None,
              space |-> ColorSpaceDefault]
    /\ built' = NoBuilt
    /\ args' = NoArgs
    /\ UNCHANGED codec
\* Gradient::radial_builder
radial_builder ==
    /\ gb = NoBuilder
    /\ gb' = [is |-> "radial", stops |-> <<>>, center |-> None,
              radius |-> None, focal_center |-> None,
              focal_radius |-> None, space |-> ColorSpaceDefault]
    /\ built' = NoBuilt
    /\ args' = NoArgs
    /\ UNCHANGED codec
\* Gradient::conic_builder
conic_builder ==
    /\ gb = NoBuilder
    /\ gb' = [is |-> "conic", stops |-> <<>>, angle |-> None,
              center |-> None, space |-> ColorSpaceDefault]
    /\ built' = NoBuilt
    /\ args' = NoArgs
    /\ UNCHANGED codec

\* LinearGradientBuilder
\* A variant of LinearStops that keeps the stops held and adds the list.
LinearStops_Extends(stops) ==
    /\ gb.is = "linear"
    /\ Len(gb.stops) + Len(stops) <= MaxStops
    /\ gb' = [gb EXCEPT !.stops = gb.stops \o stops]
    /\ args' = StopsCalled(stops)
    /\ UNCHANGED built
    /\ UNCHANGED codec
LinearStops(stops) ==
    /\ gb.is = "linear"
    /\ gb' = [gb EXCEPT !.stops = stops]
    /\ args' = StopsCalled(stops)
    /\ UNCHANGED built
    /\ UNCHANGED codec
LinearStop(stop) ==
    /\ gb.is = "linear"
    /\ Len(gb.stops) < MaxStops
    /\ gb' = [gb EXCEPT !.stops = Append(gb.stops, stop)]
    /\ args' = StopCalled(stop)
    /\ UNCHANGED built
    /\ UNCHANGED codec
LinearAngle(angle) ==
    /\ gb.is = "linear"
    /\ gb' = [gb EXCEPT !.angle = Some(angle)]
    /\ args' = [args EXCEPT !.angle = Some(angle)]
    /\ UNCHANGED built
    /\ UNCHANGED codec
LinearSpace(space) ==
    /\ gb.is = "linear"
    /\ gb' = [gb EXCEPT !.space = space]
    /\ args' = [args EXCEPT !.space = Some(space)]
    /\ UNCHANGED built
    /\ UNCHANGED codec
LinearBuildResult(self) ==
    IF ~(Len(self.stops) >= 2) THEN MissingField(<<"stops">>)
    ELSE IF ~IsSome(self.angle) THEN MissingField(<<"angle">>)
    ELSE Ok(GradientLinearNew(self.stops, self.angle[1], self.space))

\* RadialGradientBuilder
RadialStops(stops) ==
    /\ gb.is = "radial"
    /\ gb' = [gb EXCEPT !.stops = stops]
    /\ args' = StopsCalled(stops)
    /\ UNCHANGED built
    /\ UNCHANGED codec
RadialStop(stop) ==
    /\ gb.is = "radial"
    /\ Len(gb.stops) < MaxStops
    /\ gb' = [gb EXCEPT !.stops = Append(gb.stops, stop)]
    /\ args' = StopCalled(stop)
    /\ UNCHANGED built
    /\ UNCHANGED codec
RadialCenter(center) ==
    /\ gb.is = "radial"
    /\ gb' = [gb EXCEPT !.center = Some(center)]
    /\ args' = [args EXCEPT !.center = Some(center)]
    /\ UNCHANGED built
    /\ UNCHANGED codec
RadialRadius(radius) ==
    /\ gb.is = "radial"
    /\ gb' = [gb EXCEPT !.radius = Some(radius)]
    /\ args' = [args EXCEPT !.radius = Some(radius)]
    /\ UNCHANGED built
    /\ UNCHANGED codec
RadialFocalCenter(focal_center) ==
    /\ gb.is = "radial"
    /\ gb' = [gb EXCEPT !.focal_center = Some(focal_center)]
    /\ args' = [args EXCEPT !.focal_center = Some(focal_center)]
    /\ UNCHANGED built
    /\ UNCHANGED codec
RadialFocalRadius(focal_radius) ==
    /\ gb.is = "radial"
    /\ gb' = [gb EXCEPT !.focal_radius = Some(focal_radius)]
    /\ args' = [args EXCEPT !.focal_radius = Some(focal_radius)]
    /\ UNCHANGED built
    /\ UNCHANGED codec
RadialSpace(space) ==
    /\ gb.is = "radial"
    /\ gb' = [gb EXCEPT !.space = space]
    /\ args' = [args EXCEPT !.space = Some(space)]
    /\ UNCHANGED built
    /\ UNCHANGED codec
\* A variant of RadialBuildResult that checks the geometry before the stops.
RadialBuildResult_GeometryFirst(self) ==
    IF ~IsSome(self.center) THEN MissingField(<<"center">>)
    ELSE IF ~IsSome(self.radius) THEN MissingField(<<"radius">>)
    ELSE IF ~IsSome(self.focal_center)
    THEN MissingField(<<"focal", "_", "center">>)
    ELSE IF ~IsSome(self.focal_radius)
    THEN MissingField(<<"focal", "_", "radius">>)
    ELSE IF ~(Len(self.stops) >= 2) THEN MissingField(<<"stops">>)
    ELSE Ok(GradientRadialNew(self.stops, self.center[1], self.radius[1],
                              self.focal_center[1], self.focal_radius[1],
                              self.space))
\* A variant of RadialBuildResult that hands the two centers to
\* Gradient::radial in each other's place.
RadialBuildResult_SwapsCenters(self) ==
    IF ~(Len(self.stops) >= 2) THEN MissingField(<<"stops">>)
    ELSE IF ~IsSome(self.center) THEN MissingField(<<"center">>)
    ELSE IF ~IsSome(self.radius) THEN MissingField(<<"radius">>)
    ELSE IF ~IsSome(self.focal_center)
    THEN MissingField(<<"focal", "_", "center">>)
    ELSE IF ~IsSome(self.focal_radius)
    THEN MissingField(<<"focal", "_", "radius">>)
    ELSE Ok(GradientRadialNew(self.stops, self.focal_center[1],
                              self.radius[1], self.center[1],
                              self.focal_radius[1], self.space))
RadialBuildResult(self) ==
    IF ~(Len(self.stops) >= 2) THEN MissingField(<<"stops">>)
    ELSE IF ~IsSome(self.center) THEN MissingField(<<"center">>)
    ELSE IF ~IsSome(self.radius) THEN MissingField(<<"radius">>)
    ELSE IF ~IsSome(self.focal_center)
    THEN MissingField(<<"focal", "_", "center">>)
    ELSE IF ~IsSome(self.focal_radius)
    THEN MissingField(<<"focal", "_", "radius">>)
    ELSE Ok(GradientRadialNew(self.stops, self.center[1], self.radius[1],
                              self.focal_center[1], self.focal_radius[1],
                              self.space))

\* ConicGradientBuilder
ConicStops(stops) ==
    /\ gb.is = "conic"
    /\ gb' = [gb EXCEPT !.stops = stops]
    /\ args' = StopsCalled(stops)
    /\ UNCHANGED built
    /\ UNCHANGED codec
ConicStop(stop) ==
    /\ gb.is = "conic"
    /\ Len(gb.stops) < MaxStops
    /\ gb' = [gb EXCEPT !.stops = Append(gb.stops, stop)]
    /\ args' = StopCalled(stop)
    /\ UNCHANGED built
    /\ UNCHANGED codec
ConicAngle(angle) ==
    /\ gb.is = "conic"
    /\ gb' = [gb EXCEPT !.angle = Some(angle)]
    /\ args' = [args EXCEPT !.angle = Some(angle)]
    /\ UNCHANGED built
    /\ UNCHANGED codec
ConicCenter(center) ==
    /\ gb.is = "conic"
    /\ gb' = [gb EXCEPT !.center = Some(center)]
    /\ args' = [args EXCEPT !.center = Some(center)]
    /\ UNCHANGED built
    /\ UNCHANGED codec
ConicSpace(space) ==
    /\ gb.is = "conic"
    /\ gb' = [gb EXCEPT !.space = space]
    /\ args' = [args EXCEPT !.space = Some(space)]
    /\ UNCHANGED built
    /\ UNCHANGED codec
\* A variant of ConicBuildResult that looks at the center before the angle.
ConicBuildResult_CenterFirst(self) ==
    IF ~(Len(self.stops) >= 2) THEN MissingField(<<"stops">>)
    ELSE IF ~IsSome(self.center) THEN MissingField(<<"center">>)
    ELSE IF ~IsSome(self.angle) THEN MissingField(<<"angle">>)
    ELSE Ok(GradientConicNew(self.stops, self.angle[1], self.center[1],
                             self.space))
ConicBuildResult(self) ==
    IF ~(Len(self.stops) >= 2) THEN MissingField(<<"stops">>)
    ELSE IF ~IsSome(self.angle) THEN MissingField(<<"angle">>)
    ELSE IF ~IsSome(self.center) THEN MissingField(<<"center">>)
    ELSE Ok(GradientConicNew(self.stops, self.angle[1], self.center[1],
                             self.space))

\* build(self): the builder is gone, its result is in hand.
Built(is, result) ==
    /\ gb.is = is
    /\ built' = [builder |-> gb, result |-> result]
    /\ gb' = NoBuilder
    /\ UNCHANGED args
    /\ UNCHANGED codec
LinearBuild == gb.is = "linear" /\ Built("linear", LinearBuildResult(gb))
RadialBuild == gb.is = "radial" /\ Built("radial", RadialBuildResult(gb))
ConicBuild == gb.is = "conic" /\ Built("conic", ConicBuildResult(gb))

NextGradientBuilder ==
    \/ linear_builder
    \/ radial_builder
    \/ conic_builder
    \/ \E stops \in StopLists : LinearStops(stops)
    \/ \E stop \in StopArgs : LinearStop(stop)
    \/ \E angle \in Angles : LinearAngle(angle)
    \/ \E space \in SpaceArgs : LinearSpace(space)
    \/ LinearBuild
    \/ \E stops \in StopLists : RadialStops(stops)
    \/ \E stop \in StopArgs : RadialStop(stop)
    \/ \E center \in CenterArgs : RadialCenter(center)
    \/ \E radius \in Ratios : RadialRadius(radius)
    \/ \E center \in CenterArgs : RadialFocalCenter(center)
    \/ \E radius \in Ratios : RadialFocalRadius(radius)
    \/ \E space \in SpaceArgs : RadialSpace(space)
    \/ RadialBuild
    \/ \E stops \in StopLists : ConicStops(stops)
    \/ \E stop \in StopArgs : ConicStop(stop)
    \/ \E angle \in Angles : ConicAngle(angle)
    \/ \E center \in CenterArgs : ConicCenter(center)
    \/ \E space \in SpaceArgs : ConicSpace(space)
    \/ ConicBuild

SpecGradientBuilder == Init /\ [][NextGradientBuilder]_vars

---------------------------------------------------------------------------
\* RadiusBuilder, and the path of a Radius over the wire and back.

\* The lengths a caller passes to the setters of RadiusBuilder.
RadiusArgs == {LengthNew(0), LengthNew(1)}

\* The history of a call of a setter of RadiusBuilder: its argument is the
\* latest of the slot, and the latest call was for a corner or for a
\* shorthand.
RadiusCalled(slot, value) ==
    [args EXCEPT ![slot] = Some(value),
                 !.latest = IF slot \in {"top_left", "top_right", "bottom_left",
                                         "bottom_right"}
                            THEN "corner" ELSE "shorthand"]

\* Radius::builder
RadiusBuilderNew ==
    /\ gb = NoBuilder
    /\ val = NoValue
    /\ buf = NoBuf
    /\ gb' = [is |-> "radius", top_left |-> None, top_right |-> None,
              bottom_left |-> None, bottom_right |-> None, top |-> None,
              bottom |-> None, left |-> None, right |-> None, rest |-> None]
    /\ built' = NoBuilt
    /\ args' = [top_left |-> None, top_right |-> None, bottom_left |-> None,
                bottom_right |-> None, top |-> None, bottom |-> None,
                left |-> None, right |-> None, rest |-> None,
                latest |-> "none"]
    /\ UNCHANGED codec

\* RadiusBuilder
RadiusTopLeft(value) ==
    /\ gb.is = "radius"
    /\ gb' = [gb EXCEPT !.top_left = Some(value)]
    /\ args' = RadiusCalled("top_left", value)
    /\ UNCHANGED built
    /\ UNCHANGED codec
RadiusTopRight(value) ==
    /\ gb.is = "radius"
    /\ gb' = [gb EXCEPT !.top_right = Some(value)]
    /\ args' = RadiusCalled("top_right", value)
    /\ UNCHANGED built
    /\ UNCHANGED codec
RadiusBottomLeft(value) ==
    /\ gb.is = "radius"
    /\ gb' = [gb EXCEPT !.bottom_left = Some(value)]
    /\ args' = RadiusCalled("bottom_left", value)
    /\ UNCHANGED built
    /\ UNCHANGED codec
RadiusBottomRight(value) ==
    /\ gb.is = "radius"
    /\ gb' = [gb EXCEPT !.bottom_right = Some(value)]
    /\ args' = RadiusCalled("bottom_right", value)
    /\ UNCHANGED built
    /\ UNCHANGED codec
RadiusTop(value) ==
    /\ gb.is = "radius"
    /\ gb' = [gb EXCEPT !.top = Some(value)]
    /\ args' = RadiusCalled("top", value)
    /\ UNCHANGED built
    /\ UNCHANGED codec
RadiusBottom(value) ==
    /\ gb.is = "radius"
    /\ gb' = [gb EXCEPT !.bottom = Some(value)]
    /\ args' = RadiusCalled("bottom", value)
    /\ UNCHANGED built
    /\ UNCHANGED codec
\* A variant of RadiusLeft that takes the corners of the left side back.
RadiusLeft_ClearsCorners(value) ==
    /\ gb.is = "radius"
    /\ gb' = [gb EXCEPT !.left = Some(value), !.top_left = None,
                        !.bottom_left = None]
    /\ args' = RadiusCalled("left", value)
    /\ UNCHANGED built
    /\ UNCHANGED codec
RadiusLeft(value) ==
    /\ gb.is = "radius"
    /\ gb' = [gb EXCEPT !.left = Some(value)]
    /\ args' = RadiusCalled("left", value)
    /\ UNCHANGED built
    /\ UNCHANGED codec
RadiusRight(value) ==
    /\ gb.is = "radius"
    /\ gb' = [gb EXCEPT !.right = Some(value)]
    /\ args' = RadiusCalled("right", value)
    /\ UNCHANGED built
    /\ UNCHANGED codec
RadiusRest(value) ==
    /\ gb.is = "radius"
    /\ gb' = [gb EXCEPT !.rest = Some(value)]
    /\ args' = RadiusCalled("rest", value)
    /\ UNCHANGED built
    /\ UNCHANGED codec
\* A variant of RadiusBuildResult in which top beats left for top_left.
RadiusBuildResult_TopFirst(self) ==
    RadiusNew(
        Or(Or(Or(self.top_left, self.top), self.left), self.rest),
        Or(Or(Or(self.top_right, self.top), self.right), self.rest),
        Or(Or(Or(self.bottom_left, self.left), self.bottom), self.rest),
        Or(Or(Or(self.bottom_right, self.right), self.bottom), self.rest))
RadiusBuildResult(self) ==
    RadiusNew(
        Or(Or(Or(self.top_left, self.left), self.top), self.rest),
        Or(Or(Or(self.top_right, self.top), self.right), self.rest),
        Or(Or(Or(self.bottom_left, self.left), self.bottom), self.rest),
        Or(Or(Or(self.bottom_right, self.right), self.bottom), self.rest))
RadiusBuild == gb.is = "radius" /\ Built("radius", RadiusBuildResult(gb))

\* The other side writes a Radius by hand, with the nine slots the builder
\* held: an unset slot is null or, with omit, has no entry.
ShorthandBuffer(self, omit) ==
    LET S == Fields("RadiusCbor")
        held == {i \in Indices(S) : ~omit \/ IsSome(self[S[i].name])}
    IN  Map([key \in {KeyOf("RadiusCbor", S[i].name) : i \in held} |->
                LET f == S[IndexOfKey("RadiusCbor", key)]
                IN  Serialize(f.ty, self[f.name])])
Wire(omit) ==
    /\ built # NoBuilt
    /\ built.builder.is = "radius"
    /\ val = NoValue
    /\ buf = NoBuf
    /\ buf' = ShorthandBuffer(built.builder, omit)
    /\ edits' = {"shorthand"}
    /\ target' = "none"
    /\ res' = NoRes
    /\ UNCHANGED val
    /\ UNCHANGED builders

\* The caller keeps the value from_bytes returned; from is the buffer it
\* came from (history, not a field of the program).
Adopt ==
    /\ target # "none"
    /\ res.ok
    /\ val = NoValue
    /\ val' = [ty |-> target, v |-> res.val, from |-> buf]
    /\ buf' = NoBuf
    /\ edits' = {}
    /\ target' = "none"
    /\ res' = NoRes
    /\ UNCHANGED builders

NextRadius ==
    \/ RadiusBuilderNew
    \/ \E value \in RadiusArgs : RadiusTopLeft(value)
    \/ \E value \in RadiusArgs : RadiusTopRight(value)
    \/ \E value \in RadiusArgs : RadiusBottomLeft(value)
    \/ \E value \in RadiusArgs : RadiusBottomRight(value)
    \/ \E value \in RadiusArgs : RadiusTop(value)
    \/ \E value \in RadiusArgs : RadiusBottom(value)
    \/ \E value \in RadiusArgs : RadiusLeft(value)
    \/ \E value \in RadiusArgs : RadiusRight(value)
    \/ \E value \in RadiusArgs : RadiusRest(value)
    \/ RadiusBuild
    \/ \E omit \in BOOLEAN : Wire(omit)
    \/ Decode("Radius")
    \/ Adopt
    \/ Encode

SpecRadius == Init /\ [][NextRadius]_vars



---------------------------------------------------------------------------
\* The vocabulary of the properties.

\* The error kinds of the design, by the code path that makes the error:
\* serde's own errors on the shape of the buffer are MalformedEncoding, the
\* Err of a TryFrom is TypeMismatch, an enum without a matching variant is
\* UnknownVariant.
ErrorKind(r) ==
    CASE r.kind \in {"missing_field", "invalid_type"} -> "MalformedEncoding"
      [] r.kind = "custom" -> "TypeMismatch"
      [] r.kind \in {"unknown_variant", "untagged"} -> "UnknownVariant"
      [] r.kind = "MissingField" -> "MissingField"
      [] OTHER -> "none"
Failed(r, kind) == ~r.ok /\ ErrorKind(r) = kind

\* s occurs in the message.
Contains(msg, s) ==
    \E i \in 1..(Len(msg) - Len(s) + 1) : SubSeq(msg, i, i + Len(s) - 1) = s

\* The buffer is what to_bytes made of the value in hand.
Encoded == buf # NoBuf /\ edits = {}
\* from_bytes has run on the buffer.
Decoded == target # "none"

\* The key under which the decoder of a tagged record looks for its
\* discriminant, and the keys and types of its other fields.
DiscriminantKey(ty) == KeyOf(CborOf(ty), Fields(CborOf(ty))[1].name)
SemanticFields(ty) == Tail(Fields(CborOf(ty)))

HasDiscriminant(ty, b) ==
    /\ b.t = "map"
    /\ DiscriminantKey(ty) \in DOMAIN b.v
    /\ b.v[DiscriminantKey(ty)].t = "text"
Discriminant(ty, b) == b.v[DiscriminantKey(ty)].v
HasRightDiscriminant(ty, b) ==
    HasDiscriminant(ty, b) /\ Discriminant(ty, b) = TYPE_NAME(ty)
HasWrongDiscriminant(ty, b) ==
    HasDiscriminant(ty, b) /\ Discriminant(ty, b) # TYPE_NAME(ty)

\* The primitive shape a field of a tagged record must have.
ShapeOf(prim) ==
    CASE prim = "f64" -> "float"
      [] prim = "i64" -> "int"
      [] prim = "String" -> "text"
\* Every required field is present with its shape; an optional field is
\* absent, null or of its shape.
FieldsWellFormed(ty, b) ==
    /\ b.t = "map"
    /\ \A i \in Indices(SemanticFields(ty)) :
         LET f == SemanticFields(ty)[i]
             key == KebabCase(Words(f.name))
         IN  IF f.ty.k = "Option"
             THEN \/ key \notin DOMAIN b.v
                  \/ b.v[key].t \in {"null", ShapeOf(f.ty.of.k)}
             ELSE /\ key \in DOMAIN b.v
                  /\ b.v[key].t = ShapeOf(f.ty.k)

\* A key in kebab-case: words joined by "-".
IsKebabCase(key) ==
    /\ Len(key) % 2 = 1
    /\ \A i \in Indices(key) :
         IF i % 2 = 0 THEN key[i] = "-" ELSE key[i] \notin {"-", "_"}

---------------------------------------------------------------------------
\* C1. Round trip: decoding the encoding of a value v of any of the
\* fourteen types, as that type, succeeds and yields v.
C1_RoundTrip ==
    (Decoded /\ Encoded /\ target = val.ty) => res = Ok(val.v)
\* A Radius inside a LengthRadius, with a corner set, came back.
C1_Witness ==
    /\ Decoded /\ Encoded
    /\ target = "LengthRadius" /\ val.ty = "LengthRadius"
    /\ val.v.variant = "Radius" /\ IsSome(val.v.value.bottom_left)
    /\ res.ok

C3_AbsentIsTypeMismatch ==
    (/\ Decoded /\ target \in Tagged /\ buf.t = "map"
     /\ DiscriminantKey(target) \notin DOMAIN buf.v)
    => Failed(res, "TypeMismatch")
\* C3 (amended). Such a buffer fails with MalformedEncoding: the
\* discriminant is a required field of the record like any other.
C3_AbsentIsMalformed ==
    (/\ Decoded /\ target \in Tagged /\ buf.t = "map"
     /\ DiscriminantKey(target) \notin DOMAIN buf.v)
    => Failed(res, "MalformedEncoding")
\* A Duration buffer that lost its discriminant was refused as a Duration.
C3_Witness ==
    /\ Decoded /\ target = "Duration" /\ val.ty = "Duration"
    /\ edits = {"drop"}
    /\ DiscriminantKey(target) \notin DOMAIN buf.v
    /\ FieldsWellFormed(target, buf)
    /\ ~res.ok

\* C4 (original). A buffer with a wrong discriminant and a missing or
\* ill-shaped required field is rejected with TypeMismatch.
C4_DiscriminantFirst ==
    (/\ Decoded /\ target \in Tagged
     /\ HasWrongDiscriminant(target, buf) /\ ~FieldsWellFormed(target, buf))
    => Failed(res, "TypeMismatch")
\* C4 (amended). The whole record is read before the discriminant is
\* compared: such a buffer is rejected with MalformedEncoding.
C4_FieldsFirst ==
    (/\ Decoded /\ target \in Tagged
     /\ HasWrongDiscriminant(target, buf) /\ ~FieldsWellFormed(target, buf))
    => Failed(res, "MalformedEncoding")
\* A Version buffer with another discriminant and an entry left out was
\* refused as a Version.
C4_Witness ==
    /\ Decoded /\ target = "Version" /\ val.ty = "Version"
    /\ edits = {"retag", "drop"}
    /\ HasWrongDiscriminant(target, buf) /\ ~FieldsWellFormed(target, buf)
    /\ ~res.ok

\* T is an alternative of the union U, or U of T.
UnionOf(T, U) ==
    \/ T = "ColorGradient" /\ U \in {"Color", "Gradient"}
    \/ T = "LengthRadius" /\ U \in {"Length", "Radius"}
UnionPair(T, U) == UnionOf(T, U) \/ UnionOf(U, T)
\* C5 (original). The encoding of a value of one type never decodes as
\* another type (a union and its alternatives apart).
C5_NoCrossTypeAcceptance ==
    (Decoded /\ Encoded /\ target # val.ty /\ ~UnionPair(target, val.ty))
    => ~res.ok
\* C5 (amended). The encoding of a value of one type decodes as another
\* type exactly when that type is Radius or LengthRadius, which accept any
\* map, or the two are a union and one of its alternatives; a buffer that
\* is no Radius decodes to the Radius without corners.
C5_OnlyRadiusAccepts ==
    (Decoded /\ Encoded /\ target # val.ty)
    => /\ res.ok <=> (\/ target \in {"Radius", "LengthRadius"}
                      \/ UnionOf(target, val.ty)
                      \/ /\ UnionOf(val.ty, target)
                         /\ val.v.variant = target)
       /\ (/\ target = "Radius"
           /\ ~(val.ty = "LengthRadius" /\ val.v.variant = "Radius"))
          => res = Ok(RadiusNew(None, None, None, None))
\* The encoding of a Length was accepted as a Radius.
C5_Witness ==
    /\ Decoded /\ Encoded
    /\ val.ty = "Length" /\ target = "Radius"
    /\ res.ok

\* C6. The encoding of a tagged record is a map with the registered name
\* at the discriminant key and one entry per field of the value, every
\* key in kebab-case.
C6_TaggedRecordEncoding ==
    (Encoded /\ val.ty \in Tagged)
    => /\ buf.t = "map"
       /\ DOMAIN buf.v = {DiscriminantKey(val.ty)}
                         \cup {KebabCase(Words(f)) : f \in DOMAIN val.v}
       /\ Cardinality(DOMAIN buf.v) = 1 + Cardinality(DOMAIN val.v)
       /\ buf.v[DiscriminantKey(val.ty)] = Text(TYPE_NAME(val.ty))
       /\ \A key \in DOMAIN buf.v : IsKebabCase(key)
\* A DateTime with unset fields was encoded.
C6_Witness ==
    /\ Encoded /\ val.ty = "DateTime"
    /\ ~IsSome(val.v.month) /\ IsSome(val.v.year)

\* C7. One discriminant key: the encoding of every tagged record carries
\* its discriminant under the key that each of the seven decoders requires.
C7_OneDiscriminantKey ==
    (Encoded /\ val.ty \in Tagged)
    => \A ty \in Tagged : DiscriminantKey(ty) \in DOMAIN buf.v

\* The key of the encoding of a Color or a Gradient that holds the name of
\* the variant.
VariantNames(enum) ==
    {VariantsOf(enum)[i].name : i \in Indices(VariantsOf(enum))}
VariantKey(enum, b) ==
    CHOOSE key \in DOMAIN b.v :
        b.v[key].t = "text" /\ b.v[key].v \in VariantNames(enum)
\* C8 (original). The variant key of Color and Gradient is one key, which
\* no tagged record uses for its discriminant.
C8_DedicatedVariantKey ==
    (Encoded /\ val.ty \in {"Color", "Gradient"})
    => /\ \A enum \in {"Color", "Gradient"} :
            \A v \in Values(enum) :
                VariantKey(enum, to_bytes(enum, v)) = VariantKey(val.ty, buf)
       /\ \A ty \in Tagged : DiscriminantKey(ty) # VariantKey(val.ty, buf)
\* C8 (amended). The variant key is not dedicated: Color keeps its variant
\* under the discriminant key of Ratio and Length, Gradient under that of
\* Angle, Duration, DateTime, Version and Type.
C8_SharedVariantKey ==
    (Encoded /\ val.ty \in {"Color", "Gradient"})
    => \A ty \in Tagged :
          DiscriminantKey(ty) = VariantKey(val.ty, buf)
          <=> IF val.ty = "Color" THEN ty \in {"Ratio", "Length"}
              ELSE ty \in {"Angle", "Duration", "DateTime", "Version", "Type"}
\* A Color was encoded.
C8_Witness ==
    Encoded /\ val.ty = "Color" /\ val.v.variant = "Cmyk"

\* C9. With the right discriminant, decoding a tagged record fails with
\* MalformedEncoding when a required field is absent or ill-shaped, and
\* succeeds otherwise.
C9_FieldsDecide ==
    (Decoded /\ target \in Tagged /\ HasRightDiscriminant(target, buf))
    => IF FieldsWellFormed(target, buf)
       THEN res.ok
       ELSE Failed(res, "MalformedEncoding")
\* A Version without "build" was refused.
C9_Witness ==
    /\ Decoded /\ target = "Version"
    /\ HasRightDiscriminant(target, buf)
    /\ <<"build">> \notin DOMAIN buf.v
    /\ Failed(res, "MalformedEncoding")

\* C10. build() of a gradient builder that holds fewer than 2 stops fails
\* with MissingField("stops"), whatever geometry is set.
C10_StopsFirst ==
    (built # NoBuilt /\ Len(built.builder.stops) < 2)
    => built.result = MissingField(<<"stops">>)
\* A radial builder with one stop and all its geometry was built.
C10_Witness ==
    /\ built # NoBuilt
    /\ built.builder.is = "radial"
    /\ Len(built.builder.stops) = 1
    /\ IsSome(built.builder.center) /\ IsSome(built.builder.radius)
    /\ IsSome(built.builder.focal_center)
    /\ IsSome(built.builder.focal_radius)

\* The required geometry fields of each gradient builder, in the order of
\* their declaration.
GeometryOf(is) ==
    CASE is = "linear" -> <<"angle">>
      [] is = "radial" -> <<"center", "radius", "focal_center", "focal_radius">>
      [] is = "conic" -> <<"angle", "center">>
\* The positions in GeometryOf of the fields a builder has not set.
UnsetGeometry(self) ==
    {i \in Indices(GeometryOf(self.is)) : ~IsSome(self[GeometryOf(self.is)[i]])}
FirstOf(S) == CHOOSE i \in S : \A j \in S : i <= j

\* C11. build() of a gradient builder that holds at least 2 stops fails
\* with MissingField(f), f the first unset geometry field in declaration
\* order, and succeeds only when no geometry field is unset.
C11_FirstUnsetGeometry ==
    (built # NoBuilt /\ Len(built.builder.stops) >= 2)
    => LET self == built.builder
       IN  IF UnsetGeometry(self) = {}
           THEN built.result.ok
           ELSE built.result =
                  MissingField(SnakeCase(Words(
                      GeometryOf(self.is)[FirstOf(UnsetGeometry(self))])))
\* A radial builder with 2 stops, its radius and focal center unset, was
\* built.
C11_Witness ==
    /\ built # NoBuilt /\ Len(built.builder.stops) >= 2
    /\ built.builder.is = "radial"
    /\ UnsetGeometry(built.builder) = {2, 3}
    /\ built.result = MissingField(<<"radius">>)

\* The variant each builder is for.
VariantOfBuilder(is) ==
    CASE is = "linear" -> "Linear"
      [] is = "radial" -> "Radial"
      [] is = "conic" -> "Conic"

\* C12. A successful build() yields the variant of the builder used, with
\* the builder's stops in order, each geometry field at the value last
\* passed to its setter, and the color space last passed to space(), or
\* Oklab when space() was never called.
C12_BuildYieldsWhatWasSet ==
    (built # NoBuilt /\ built.result.ok)
    => LET self == built.builder
           G == GeometryOf(self.is)
           g == built.result.val
       IN  /\ g.variant = VariantOfBuilder(self.is)
           /\ DOMAIN g.value =
                {"stops", "space"} \cup {G[i] : i \in Indices(G)}
           /\ g.value.stops = self.stops
           /\ \A i \in Indices(G) : Some(g.value[G[i]]) = args[G[i]]
           /\ g.value.space =
                IF IsSome(args.space) THEN args.space[1] ELSE "Oklab"
\* A radial gradient with two different centers was built without a call
\* of space().
C12_Witness ==
    /\ built # NoBuilt /\ built.result.ok
    /\ built.builder.is = "radial"
    /\ args.center # args.focal_center
    /\ ~IsSome(args.space)
    /\ built.result.val.value.stops[1] # built.result.val.value.stops[2]

\* The gradients in hand: the one a constructor made and the one from_bytes
\* returned.
IsGradient(ty, v) ==
    \/ ty = "Gradient"
    \/ ty = "ColorGradient" /\ v.variant = "Gradient"
GradientOf(ty, v) == IF ty = "Gradient" THEN v ELSE v.value
StopsOf(g) == g.value.stops

\* C13 (original). Every Gradient made by linear/radial/conic, by a
\* builder or by from_bytes has at least 2 stops.
C13_AtLeastTwoStops ==
    /\ (val # NoValue /\ IsGradient(val.ty, val.v))
       => Len(StopsOf(GradientOf(val.ty, val.v))) >= 2
    /\ (Decoded /\ res.ok /\ IsGradient(target, res.val))
       => Len(StopsOf(GradientOf(target, res.val))) >= 2
    /\ (built # NoBuilt /\ built.result.ok)
       => Len(StopsOf(built.result.val)) >= 2
\* C13 (amended). Only the builders require 2 stops. The constructors
\* keep the stops they are given and from_bytes accepts a gradient with
\* any number of stops, none and one included: the encoding of a
\* constructed gradient holds its stops as an array of the same length
\* and decodes to a gradient with as many stops.
C13_StopsAsGiven ==
    (Encoded /\ Decoded /\ val.ty = "Gradient" /\ target = "Gradient")
    => /\ <<"stops">> \in DOMAIN buf.v
       /\ buf.v[<<"stops">>].t = "array"
       /\ Len(buf.v[<<"stops">>].v) = Len(StopsOf(val.v))
       /\ res.ok
       /\ Len(StopsOf(res.val)) = Len(buf.v[<<"stops">>].v)
\* A conic gradient without stops was constructed, encoded and decoded.
C13_Witness ==
    /\ Encoded /\ Decoded /\ val.ty = "Gradient" /\ target = "Gradient"
    /\ val.v.variant = "Conic"
    /\ res.ok /\ Len(StopsOf(res.val)) = 0

---------------------------------------------------------------------------
\* Radius.

Corners == {"top_left", "top_right", "bottom_left", "bottom_right"}
Shorthands == {"left", "top", "right", "bottom", "rest"}
\* The slots a corner is resolved from, first to last.
SourcesOf(corner) ==
    CASE corner = "top_left" -> <<"top_left", "left", "top", "rest">>
      [] corner = "top_right" -> <<"top_right", "top", "right", "rest">>
      [] corner = "bottom_left" -> <<"bottom_left", "left", "bottom", "rest">>
      [] corner = "bottom_right" ->
            <<"bottom_right", "right", "bottom", "rest">>
\* The first present value among the named slots, None when there is none.
FirstPresent(slots, names) ==
    LET present == {i \in Indices(names) : IsSome(slots[names[i]])}
    IN  IF present = {} THEN None ELSE slots[names[FirstOf(present)]]
Resolved(slots) ==
    [corner \in Corners |-> FirstPresent(slots, SourcesOf(corner))]
\* A RadiusBuilder was built.
RadiusBuilt == built # NoBuilt /\ built.builder.is = "radius"
\* The key of a slot on the wire.
SlotKey(slot) == KebabCase(Words(slot))
\* The buffer holds, for each of the nine slots, what the slots hold: the
\* encoded length of a set slot, null or no entry for an unset one.
CarriesSlots(b, slots) ==
    /\ b.t = "map"
    /\ DOMAIN b.v \subseteq {SlotKey(slot) : slot \in Corners \cup Shorthands}
    /\ \A slot \in Corners \cup Shorthands :
         IF IsSome(slots[slot])
         THEN /\ SlotKey(slot) \in DOMAIN b.v
              /\ b.v[SlotKey(slot)] = to_bytes("Length", slots[slot][1])
         ELSE \/ SlotKey(slot) \notin DOMAIN b.v
              \/ b.v[SlotKey(slot)] = Null

\* C14. RadiusBuilder::build resolves each corner to the first present of
\* its four sources (top_left: top_left, left, top, rest; top_right:
\* top_right, top, right, rest; bottom_left: bottom_left, left, bottom,
\* rest; bottom_right: bottom_right, right, bottom, rest); a corner is
\* unset exactly when all four are unset.
C14_BuilderResolution ==
    RadiusBuilt
    => /\ built.result = Resolved(built.builder)
       /\ \A corner \in Corners :
            ~IsSome(built.result[corner])
            <=> \A i \in 1..4 : ~IsSome(built.builder[SourcesOf(corner)[i]])
\* left and top were set to different lengths and top_left was not: left
\* won.
C14_Witness ==
    /\ RadiusBuilt
    /\ ~IsSome(built.builder.top_left)
    /\ IsSome(built.builder.left) /\ IsSome(built.builder.top)
    /\ built.builder.left # built.builder.top
    /\ built.result.top_left = built.builder.left

\* C15. Builder and decoder resolve alike: decoding a buffer that carries
\* the nine slots of a RadiusBuilder yields the Radius its build() yields.
C15_BuilderAsDecoder ==
    (/\ RadiusBuilt /\ Decoded /\ target = "Radius"
     /\ CarriesSlots(buf, built.builder))
    => res = Ok(built.result)
\* A buffer with top and right (different lengths) and no top-right was
\* decoded.
C15_Witness ==
    /\ RadiusBuilt /\ Decoded /\ target = "Radius"
    /\ CarriesSlots(buf, built.builder)
    /\ SlotKey("top_right") \notin DOMAIN buf.v
    /\ IsSome(built.builder.top) /\ IsSome(built.builder.right)
    /\ built.builder.top # built.builder.right
    /\ res.ok /\ res.val.top_right = built.builder.top

\* C16 (original). The encoding of a Radius has the four corner keys and
\* no other: left, top, right, bottom and rest are not keys of the map.
C16_CornerKeysOnly ==
    (Encoded /\ val.ty = "Radius")
    => DOMAIN buf.v = {SlotKey(corner) : corner \in Corners}
\* C16 (amended). The encoding of a Radius has all nine keys: each corner
\* key holds the corner (null when unset), and left, top, right, bottom
\* and rest are present and always null.
C16_ShorthandKeysNull ==
    (Encoded /\ val.ty = "Radius")
    => /\ DOMAIN buf.v = {SlotKey(slot) : slot \in Corners \cup Shorthands}
       /\ \A slot \in Shorthands : buf.v[SlotKey(slot)] = Null
       /\ \A corner \in Corners :
            buf.v[SlotKey(corner)] =
              IF IsSome(val.v[corner])
              THEN to_bytes("Length", val.v[corner][1])
              ELSE Null
\* A Radius decoded from a buffer with a rest and no corner was encoded.
C16_Witness ==
    /\ Encoded /\ val.ty = "Radius"
    /\ "from" \in DOMAIN val
    /\ DOMAIN val.from.v = {SlotKey("rest")}
    /\ IsSome(val.v.top_left)
    /\ buf.v[SlotKey("rest")] = Null

\* C17. Resolution is idempotent through the wire: for a buffer b that
\* decodes as a Radius, decode(encode(decode(b))) = decode(b).
C17_IdempotentThroughWire ==
    (/\ val # NoValue /\ "from" \in DOMAIN val /\ val.ty = "Radius"
     /\ Encoded /\ Decoded /\ target = "Radius")
    => /\ res.ok
       /\ res = from_bytes("Radius", val.from)
\* A buffer with left, top and top-right decoded, was encoded and decoded
\* again, the two top corners different.
C17_Witness ==
    /\ val # NoValue /\ "from" \in DOMAIN val /\ val.ty = "Radius"
    /\ Encoded /\ Decoded /\ target = "Radius"
    /\ DOMAIN val.from.v =
         {SlotKey("left"), SlotKey("top"), SlotKey("top_right")}
    /\ res.ok
    /\ res.val.top_left # res.val.top_right

---------------------------------------------------------------------------
\* The unions and Color.

\* The alternatives of each untagged union, in the order of the claim.
TrialOrder(union) ==
    CASE union = "ColorGradient" -> <<"Color", "Gradient">>
      [] union = "LengthRadius" -> <<"Length", "Radius">>
Unions == {"ColorGradient", "LengthRadius"}
\* The buffer decodes as ty.
DecodesAs(ty, b) == from_bytes(ty, b).ok
Wrapped(ty, b) == Ok([variant |-> ty, value |-> from_bytes(ty, b).val])

C18_WitnessNeither ==
    /\ Decoded /\ target = "LengthRadius"
    /\ ~DecodesAs("Length", buf) /\ ~DecodesAs("Radius", buf)
    /\ ~res.ok

ColorTags ==
    (<<"color", "-", "luma">> :> "Luma")
    @@ (<<"color", "-", "oklab">> :> "Oklab")
    @@ (<<"color", "-", "oklch">> :> "Oklch")
    @@ (<<"color", "-", "linear", "-", "rgb">> :> "LinearRgb")
    @@ (<<"color", "-", "rgb">> :> "Rgb")
    @@ (<<"color", "-", "cmyk">> :> "Cmyk")
    @@ (<<"color", "-", "hsl">> :> "Hsl")
    @@ (<<"color", "-", "hsv">> :> "Hsv")
\* The buffer is a map with a text under the tag key of Color.
HasColorTag(b) ==
    /\ b.t = "map"
    /\ <<"typwire", "-", "type">> \in DOMAIN b.v
    /\ b.v[<<"typwire", "-", "type">>].t = "text"
ColorTagOf(b) == b.v[<<"typwire", "-", "type">>].v

\* C20. Decoding a Color goes by the variant tag: a tag that is none of
\* the eight known names fails with UnknownVariant; with a known tag the
\* result, when there is one, is the variant of that tag.
C20_ColorByTag ==
    (Decoded /\ target = "Color" /\ HasColorTag(buf))
    => IF ColorTagOf(buf) \notin DOMAIN ColorTags
       THEN Failed(res, "UnknownVariant")
       ELSE /\ res.ok => res.val.variant = ColorTags[ColorTagOf(buf)]
            /\ ~res.ok => Failed(res, "MalformedEncoding")
            /\ Encoded => res.ok
\* A Color buffer with the tag "unknown" was refused.
C20_Witness ==
    /\ Decoded /\ target = "Color" /\ HasColorTag(buf)
    /\ val.ty = "Color"
    /\ ColorTagOf(buf) = <<"unknown">>
    /\ ~res.ok
\* A LinearRgb came back as LinearRgb.
C20_WitnessKnown ==
    /\ Decoded /\ target = "Color" /\ HasColorTag(buf)
    /\ ColorTagOf(buf) = <<"color", "-", "linear", "-", "rgb">>
    /\ res.ok /\ res.val.variant = "LinearRgb"

---------------------------------------------------------------------------
\* f64 arithmetic. A number is sig * 2^exp with a significand of at most
\* Precision bits, and every operation rounds its exact result to the
\* nearest such number, ties to the even significand, as IEEE 754 does. f64
\* has 53 bits; the exponent is unbounded here, so overflow to infinity and
\* subnormal numbers are not modelled, nor are negative numbers and NaN.

\* Bits of the significand.
Precision == 13

RECURSIVE Pow2(_)
Pow2(n) == IF n = 0 THEN 1 ELSE 2 * Pow2(n - 1)

\* The number of bits of a positive integer.
RECURSIVE BitLen(_)
BitLen(n) == IF n = 0 THEN 0 ELSE 1 + BitLen(n \div 2)

Zero == [sig |-> 0, exp |-> 0]

\* The nearest number to sig * 2^exp, the significand normalised to
\* Precision bits.
RECURSIVE Round(_, _)
Round(sig, exp) ==
    IF sig = 0 THEN Zero
    ELSE IF sig < Pow2(Precision - 1) THEN Round(2 * sig, exp - 1)
    ELSE IF sig < Pow2(Precision) THEN [sig |-> sig, exp |-> exp]
    ELSE LET k == BitLen(sig) - Precision
             q == sig \div Pow2(k)
             r == sig % Pow2(k)
             half == Pow2(k - 1)
             up == IF r > half \/ (r = half /\ q % 2 = 1) THEN 1 ELSE 0
         IN  Round(q + up, exp + k)

\* An integer literal, a decimal literal n/d.
F(n) == Round(n, 0)

\* a * b
Mul(a, b) == Round(a.sig * b.sig, a.exp + b.exp)

\* a / b for b # 0: the quotient to Precision + 2 bits and a sticky bit for
\* the remainder, then rounded.
Div(a, b) ==
    IF a.sig = 0 THEN Zero
    ELSE LET s == Precision + 2
             q == (a.sig * Pow2(s)) \div b.sig
             r == (a.sig * Pow2(s)) % b.sig
         IN  Round(2 * q + (IF r = 0 THEN 0 ELSE 1), a.exp - b.exp - s - 1)

\* a + b: exact when the exponents are close, the larger operand when the
\* smaller is below a quarter of its last place.
Add(a, b) ==
    IF a.sig = 0 THEN b
    ELSE IF b.sig = 0 THEN a
    ELSE LET hi == IF a.exp >= b.exp THEN a ELSE b
             lo == IF a.exp >= b.exp THEN b ELSE a
             d == hi.exp - lo.exp
         IN  IF d > Precision + 2 THEN hi
             ELSE Round(hi.sig * Pow2(d) + lo.sig, lo.exp)

\* The decimal literal n/d: the nearest number to the fraction.
Decimal(n, d) == Div(F(n), F(d))

\* The number is an integer, and which.
IsWhole(a) == a.exp >= 0 \/ a.sig % Pow2(0 - a.exp) = 0
Whole(a) ==
    IF a.exp >= 0 THEN a.sig * Pow2(a.exp) ELSE a.sig \div Pow2(0 - a.exp)
\* The integer n is a number: no rounding in F(n).
Representable(n) == IsWhole(F(n)) /\ Whole(F(n)) = n

---------------------------------------------------------------------------
\* Duration: the builder and the accessors.

SECONDS_IN_MINUTE == 60
MINUTES_IN_HOUR == 60
HOURS_IN_DAY == 24
DAYS_IN_WEEK == 7

\* The arguments given to the setters of a DurationBuilder.
SecondsArgs == {F(1), F(45)}
MinutesArgs == {F(1), F(2), F(30)}
HoursArgs == {F(1), F(45), Decimal(1, 10)}
DaysArgs == {F(1), Decimal(1, 10)}
WeeksArgs == {F(1), F(2)}

DurationUnits == {"seconds", "minutes", "hours", "days", "weeks"}

\* The history of a call of a setter: its argument is the latest of the
\* unit, and the argument it replaced, if the setter was called before, is
\* the latest replaced.
Called(unit, value) ==
    [args EXCEPT ![unit] = Some(value),
                 !.replaced = IF IsSome(args[unit])
                              THEN Some([unit |-> unit, value |-> args[unit][1]])
                              ELSE @]

\* Duration::builder. The arguments of the setters are history; what an
\* accessor returned before is forgotten.
DurationBuilderNew ==
    /\ gb = NoBuilder
    /\ val = NoValue
    /\ buf = NoBuf
    /\ gb' = [is |-> "duration", seconds |-> Zero, minutes |-> Zero,
              hours |-> Zero, days |-> Zero, weeks |-> Zero]
    /\ built' = NoBuilt
    /\ args' = [seconds |-> None, minutes |-> None, hours |-> None,
                days |-> None, weeks |-> None, replaced |-> None]
    /\ target' = "none"
    /\ res' = NoRes
    /\ UNCHANGED <<val, buf, edits>>

\* DurationBuilder
DurationBuilderSeconds(seconds) ==
    /\ gb.is = "duration"
    /\ gb' = [gb EXCEPT !.seconds = seconds]
    /\ args' = Called("seconds", seconds)
    /\ UNCHANGED built
    /\ UNCHANGED codec
\* A variant of DurationBuilderMinutes that adds to the component.
DurationBuilderMinutes_Accumulates(minutes) ==
    /\ gb.is = "duration"
    /\ gb' = [gb EXCEPT !.minutes = Add(gb.minutes, minutes)]
    /\ args' = Called("minutes", minutes)
    /\ UNCHANGED built
    /\ UNCHANGED codec
DurationBuilderMinutes(minutes) ==
    /\ gb.is = "duration"
    /\ gb' = [gb EXCEPT !.minutes = minutes]
    /\ args' = Called("minutes", minutes)
    /\ UNCHANGED built
    /\ UNCHANGED codec
DurationBuilderHours(hours) ==
    /\ gb.is = "duration"
    /\ gb' = [gb EXCEPT !.hours = hours]
    /\ args' = Called("hours", hours)
    /\ UNCHANGED built
    /\ UNCHANGED codec
DurationBuilderDays(days) ==
    /\ gb.is = "duration"
    /\ gb' = [gb EXCEPT !.days = days]
    /\ args' = Called("days", days)
    /\ UNCHANGED built
    /\ UNCHANGED codec
DurationBuilderWeeks(weeks) ==
    /\ gb.is = "duration"
    /\ gb' = [gb EXCEPT !.weeks = weeks]
    /\ args' = Called("weeks", weeks)
    /\ UNCHANGED built
    /\ UNCHANGED codec

\* A variant of DurationBuildResult that weighs the hours as minutes.
DurationBuildResult_HoursAsMinutes(self) ==
    DurationNew(
        Add(Add(Add(Add(self.seconds,
                        Mul(self.minutes, F(SECONDS_IN_MINUTE))),
                    Mul(self.hours, F(MINUTES_IN_HOUR))),
                Mul(Mul(Mul(self.days, F(HOURS_IN_DAY)), F(MINUTES_IN_HOUR)),
                    F(SECONDS_IN_MINUTE))),
            Mul(Mul(Mul(Mul(self.weeks, F(DAYS_IN_WEEK)), F(HOURS_IN_DAY)),
                    F(MINUTES_IN_HOUR)),
                F(SECONDS_IN_MINUTE))))
\* DurationBuilder::build: the sum is taken from the left, the products of
\* each term from the left.
DurationBuildResult(self) ==
    DurationNew(
        Add(Add(Add(Add(self.seconds,
                        Mul(self.minutes, F(SECONDS_IN_MINUTE))),
                    Mul(Mul(self.hours, F(MINUTES_IN_HOUR)),
                        F(SECONDS_IN_MINUTE))),
                Mul(Mul(Mul(self.days, F(HOURS_IN_DAY)), F(MINUTES_IN_HOUR)),
                    F(SECONDS_IN_MINUTE))),
            Mul(Mul(Mul(Mul(self.weeks, F(DAYS_IN_WEEK)), F(HOURS_IN_DAY)),
                    F(MINUTES_IN_HOUR)),
                F(SECONDS_IN_MINUTE))))
DurationBuild ==
    gb.is = "duration" /\ Built("duration", DurationBuildResult(gb))

\* Duration::seconds, minutes, hours, days, weeks
DurationSeconds(self) == self.seconds
DurationMinutes(self) == Div(DurationSeconds(self), F(SECONDS_IN_MINUTE))
DurationHours(self) == Div(DurationMinutes(self), F(MINUTES_IN_HOUR))
\* A variant of DurationDays that divides the minutes.
DurationDays_OfMinutes(self) == Div(DurationMinutes(self), F(HOURS_IN_DAY))
DurationDays(self) == Div(DurationHours(self), F(HOURS_IN_DAY))
DurationWeeks(self) == Div(DurationDays(self), F(DAYS_IN_WEEK))

Accessor(unit, self) ==
    CASE unit = "seconds" -> DurationSeconds(self)
      [] unit = "minutes" -> DurationMinutes(self)
      [] unit = "hours" -> DurationHours(self)
      [] unit = "days" -> DurationDays(self)
      [] unit = "weeks" -> DurationWeeks(self)

\* A caller reads the built Duration in one unit.
DurationRead(unit) ==
    /\ built # NoBuilt
    /\ built.builder.is = "duration"
    /\ target' = unit
    /\ res' = Ok(Accessor(unit, built.result))
    /\ UNCHANGED <<val, buf, edits>>
    /\ UNCHANGED builders

NextDuration ==
    \/ DurationBuilderNew
    \/ \E seconds \in SecondsArgs : DurationBuilderSeconds(seconds)
    \/ \E minutes \in MinutesArgs : DurationBuilderMinutes(minutes)
    \/ \E hours \in HoursArgs : DurationBuilderHours(hours)
    \/ \E days \in DaysArgs : DurationBuilderDays(days)
    \/ \E weeks \in WeeksArgs : DurationBuilderWeeks(weeks)
    \/ DurationBuild
    \/ \E unit \in DurationUnits : DurationRead(unit)

SpecDuration == Init /\ [][NextDuration]_vars

---------------------------------------------------------------------------
\* Duration: the properties.

\* A Duration was built by a DurationBuilder.
DurationBuilt == built # NoBuilt /\ built.builder.is = "duration"
\* The component of a unit as the caller gave it: the argument of the
\* latest call of the setter, 0.0 when it was never called.
Given(unit) == IF IsSome(args[unit]) THEN args[unit][1] ELSE Zero
\* Every component the caller gave is an integer.
WholeComponents == \A unit \in DurationUnits : IsWhole(Given(unit))
\* The weighted sum of the components in exact integer arithmetic.
ExactSeconds ==
    Whole(Given("seconds")) + 60 * Whole(Given("minutes"))
    + 3600 * Whole(Given("hours")) + 86400 * Whole(Given("days"))
    + 604800 * Whole(Given("weeks"))

\* C21 (as stated). The seconds of the built Duration are
\* seconds + 60*minutes + 3600*hours + 86400*days + 604800*weeks of the
\* components, for every component value.
C21_WeightedSum ==
    DurationBuilt
    => built.result.seconds
       = Add(Add(Add(Add(Given("seconds"),
                         Mul(F(60), Given("minutes"))),
                     Mul(F(3600), Given("hours"))),
                 Mul(F(86400), Given("days"))),
             Mul(F(604800), Given("weeks")))

\* C21 (amended). The seconds of the built Duration are the f64 value of
\* seconds + minutes*60 + hours*60*60 + days*24*60*60 + weeks*7*24*60*60,
\* every product and sum taken from the left and rounded, an unset
\* component counting as 0. When the components are integers and their
\* weighted sum is below 2^Precision, so that nothing is rounded, this is
\* seconds + 60*minutes + 3600*hours + 86400*days + 604800*weeks exactly.
C21_RoundedWeightedSum ==
    DurationBuilt
    => /\ built.result.seconds
          = Add(Add(Add(Add(Given("seconds"),
                            Mul(Given("minutes"), F(60))),
                        Mul(Mul(Given("hours"), F(60)), F(60))),
                    Mul(Mul(Mul(Given("days"), F(24)), F(60)), F(60))),
                Mul(Mul(Mul(Mul(Given("weeks"), F(7)), F(24)), F(60)), F(60)))
       /\ (WholeComponents /\ ExactSeconds < Pow2(Precision))
          => built.result.seconds = F(ExactSeconds)
\* hours 1, minutes 30 and seconds 45 were built into 5445 seconds.
C21_Witness ==
    /\ DurationBuilt
    /\ args.hours = Some(F(1)) /\ args.minutes = Some(F(30))
    /\ args.seconds = Some(F(45))
    /\ args.days = None /\ args.weeks = None
    /\ built.result.seconds = F(5445)

\* The builder in hand when the Duration was built had one component set,
\* that of the unit, and the Duration was read in that unit.
ReadSingle(unit) ==
    /\ DurationBuilt
    /\ target = unit
    /\ IsSome(args[unit])
    /\ \A other \in DurationUnits \ {unit} : args[other] = None
\* The product of a number and an integer constant is a number: nothing is
\* rounded away.
ExactProduct(a, k) == Representable(a.sig * k)
\* No product of DurationBuilder::build is rounded when u is the component
\* of the unit.
ExactProducts(unit, u) ==
    CASE unit = "seconds" -> TRUE
      [] unit = "minutes" -> ExactProduct(u, 60)
      [] unit = "hours" ->
            ExactProduct(u, 60) /\ ExactProduct(Mul(u, F(60)), 60)
      [] unit = "days" ->
            /\ ExactProduct(u, 24)
            /\ ExactProduct(Mul(u, F(24)), 60)
            /\ ExactProduct(Mul(Mul(u, F(24)), F(60)), 60)
      [] unit = "weeks" ->
            /\ ExactProduct(u, 7)
            /\ ExactProduct(Mul(u, F(7)), 24)
            /\ ExactProduct(Mul(Mul(u, F(7)), F(24)), 60)
            /\ ExactProduct(Mul(Mul(Mul(u, F(7)), F(24)), F(60)), 60)

\* C22 (as stated). A Duration built from a single component u returns u
\* from the accessor of the same unit, for every u.
C22_AccessorInvertsBuilder ==
    \A unit \in DurationUnits : ReadSingle(unit) => res.val = args[unit][1]

\* C22 (amended). The accessors are minutes = seconds/60, hours =
\* minutes/60, days = hours/24 and weeks = days/7 in f64, and a Duration
\* built from a single component u returns u from the accessor of the same
\* unit when no product of the build was rounded.
C22_AccessorInvertsExactBuild ==
    (DurationBuilt /\ target \in DurationUnits)
    => /\ LET s == built.result.seconds
              minutes == Div(s, F(60))
              hours == Div(minutes, F(60))
              days == Div(hours, F(24))
              weeks == Div(days, F(7))
          IN  res.val = CASE target = "seconds" -> s
                          [] target = "minutes" -> minutes
                          [] target = "hours" -> hours
                          [] target = "days" -> days
                          [] target = "weeks" -> weeks
       /\ \A unit \in DurationUnits :
            (ReadSingle(unit) /\ ExactProducts(unit, args[unit][1]))
            => res.val = args[unit][1]
\* A Duration built from 1 week alone was read in weeks: 1.
C22_Witness ==
    /\ ReadSingle("weeks")
    /\ args.weeks = Some(F(1))
    /\ ExactProducts("weeks", F(1))
    /\ built.result.seconds = F(604800)
    /\ res.val = F(1)

\* C28. The setters of a DurationBuilder overwrite: each component of the
\* builder is the argument of the latest call of its setter, whatever the
\* calls before it gave, and 0 when there was none, so a call of a setter
\* changes no component but its own; a Duration built with only minutes
\* set, however often, has 60 times the latest minutes as its seconds.
C28_SettersOverwrite ==
    /\ gb.is = "duration" => \A unit \in DurationUnits : gb[unit] = Given(unit)
    /\ DurationBuilt
       => /\ \A unit \in DurationUnits : built.builder[unit] = Given(unit)
          /\ (\A unit \in DurationUnits \ {"minutes"} : args[unit] = None)
             => built.result.seconds = Mul(Given("minutes"), F(60))
\* minutes(1) then minutes(2), nothing else, was built: 120 seconds and not
\* 180.
C28_Witness ==
    /\ DurationBuilt
    /\ args.replaced = Some([unit |-> "minutes", value |-> F(1)])
    /\ args.minutes = Some(F(2))
    /\ \A unit \in DurationUnits \ {"minutes"} : args[unit] = None
    /\ built.result.seconds = F(120)
    /\ built.result.seconds # F(180)

---------------------------------------------------------------------------
\* DateTime: the builder.

\* The arguments given to the setters of a DateTimeBuilder, calendar values
\* and others.
YearArgs == {2025, -1}
MonthArgs == {2, 13}
DayArgs == {31, 0}
HourArgs == {14, 24}
MinuteArgs == {30, 60}
SecondArgs == {45, 61}

DateTimeFields == {"year", "month", "day", "hour", "minute", "second"}

\* DateTime::builder
DateTimeBuilderNew ==
    /\ gb = NoBuilder
    /\ val = NoValue
    /\ buf = NoBuf
    /\ gb' = [is |-> "datetime", year |-> None, month |-> None, day |-> None,
              hour |-> None, minute |-> None, second |-> None]
    /\ built' = NoBuilt
    /\ args' = [year |-> None, month |-> None, day |-> None, hour |-> None,
                minute |-> None, second |-> None, replaced |-> None]
    /\ UNCHANGED codec

\* DateTimeBuilder
DateTimeBuilderYear(year) ==
    /\ gb.is = "datetime"
    /\ gb' = [gb EXCEPT !.year = Some(year)]
    /\ args' = Called("year", year)
    /\ UNCHANGED built
    /\ UNCHANGED codec
\* A variant of DateTimeBuilderMonth that keeps the month it has.
DateTimeBuilderMonth_KeepsFirst(month) ==
    /\ gb.is = "datetime"
    /\ gb' = [gb EXCEPT !.month = Or(gb.month, Some(month))]
    /\ args' = Called("month", month)
    /\ UNCHANGED built
    /\ UNCHANGED codec
DateTimeBuilderMonth(month) ==
    /\ gb.is = "datetime"
    /\ gb' = [gb EXCEPT !.month = Some(month)]
    /\ args' = Called("month", month)
    /\ UNCHANGED built
    /\ UNCHANGED codec
DateTimeBuilderDay(day) ==
    /\ gb.is = "datetime"
    /\ gb' = [gb EXCEPT !.day = Some(day)]
    /\ args' = Called("day", day)
    /\ UNCHANGED built
    /\ UNCHANGED codec
DateTimeBuilderHour(hour) ==
    /\ gb.is = "datetime"
    /\ gb' = [gb EXCEPT !.hour = Some(hour)]
    /\ args' = Called("hour", hour)
    /\ UNCHANGED built
    /\ UNCHANGED codec
DateTimeBuilderMinute(minute) ==
    /\ gb.is = "datetime"
    /\ gb' = [gb EXCEPT !.minute = Some(minute)]
    /\ args' = Called("minute", minute)
    /\ UNCHANGED built
    /\ UNCHANGED codec
DateTimeBuilderSecond(second) ==
    /\ gb.is = "datetime"
    /\ gb' = [gb EXCEPT !.second = Some(second)]
    /\ args' = Called("second", second)
    /\ UNCHANGED built
    /\ UNCHANGED codec

\* DateTimeBuilder::build
DateTimeBuildResult(self) ==
    [year |-> self.year, month |-> self.month, day |-> self.day,
     hour |-> self.hour, minute |-> self.minute, second |-> self.second]
\* build(self): the builder is gone and the caller holds the DateTime.
DateTimeBuild ==
    /\ gb.is = "datetime"
    /\ built' = [builder |-> gb, result |-> DateTimeBuildResult(gb)]
    /\ gb' = NoBuilder
    /\ val' = [ty |-> "DateTime", v |-> DateTimeBuildResult(gb)]
    /\ UNCHANGED args
    /\ UNCHANGED <<buf, edits, target, res>>

NextDateTime ==
    \/ DateTimeBuilderNew
    \/ \E year \in YearArgs : DateTimeBuilderYear(year)
    \/ \E month \in MonthArgs : DateTimeBuilderMonth(month)
    \/ \E day \in DayArgs : DateTimeBuilderDay(day)
    \/ \E hour \in HourArgs : DateTimeBuilderHour(hour)
    \/ \E minute \in MinuteArgs : DateTimeBuilderMinute(minute)
    \/ \E second \in SecondArgs : DateTimeBuilderSecond(second)
    \/ DateTimeBuild
    \/ Encode
    \/ Decode("DateTime")

SpecDateTime == Init /\ [][NextDateTime]_vars

\* A DateTime was built by a DateTimeBuilder.
DateTimeBuilt == built # NoBuilt /\ built.builder.is = "datetime"

\* C23. The DateTime a DateTimeBuilder builds has in each of its six fields
\* the argument of the latest call of the setter of that field, and nothing
\* when that setter was never called; build is there for every builder and
\* yields a DateTime, never an error.
C23_BuildYieldsLatest ==
    /\ gb.is = "datetime" => ENABLED DateTimeBuild
    /\ DateTimeBuilt
       => /\ DOMAIN built.result = DateTimeFields
          /\ \A field \in DateTimeFields : built.result[field] = args[field]
\* A DateTime was built after month(2), month(13) and day(31), the other
\* setters never called.
C23_Witness ==
    /\ DateTimeBuilt
    /\ args.replaced = Some([unit |-> "month", value |-> 2])
    /\ built.result.month = Some(13)
    /\ built.result.day = Some(31)
    /\ built.result.year = None /\ built.result.hour = None
    /\ built.result.minute = None /\ built.result.second = None

\* C24. Nothing is validated, neither a range nor one field against
\* another: a DateTimeBuilder holds every argument as it was given, a month
\* 13 or a day 31 next to a month 2 as well, and the encoding of the
\* DateTime it builds decodes as that DateTime, the same values in the same
\* fields.
C24_NoValidation ==
    /\ gb.is = "datetime"
       => \A field \in DateTimeFields : gb[field] = args[field]
    /\ (DateTimeBuilt /\ Decoded /\ target = "DateTime")
       => /\ res.ok
          /\ \A field \in DateTimeFields : res.val[field] = args[field]
\* A DateTime of year -1, month 13 and day 31 was built, encoded and
\* decoded.
C24_Witness ==
    /\ DateTimeBuilt /\ Decoded /\ target = "DateTime"
    /\ args.year = Some(-1) /\ args.month = Some(13) /\ args.day = Some(31)
    /\ res.ok
    /\ res.val.year = Some(-1) /\ res.val.month = Some(13)
    /\ res.val.day = Some(31)
\* A DateTime of month 2 and day 31 was built, encoded and decoded.
C24_WitnessFebruary ==
    /\ DateTimeBuilt /\ Decoded /\ target = "DateTime"
    /\ res.ok
    /\ res.val.month = Some(2) /\ res.val.day = Some(31)

---------------------------------------------------------------------------
\* Ratio: values in and out of the expected domain [0, 1].

RatioArgs == -2 .. 3

\* Ratio::new(ratio); the argument is history.
RatioConstruct(ratio) ==
    /\ val = NoValue
    /\ gb = NoBuilder
    /\ built = NoBuilt
    /\ val' = [ty |-> "Ratio", v |-> RatioNew(ratio)]
    /\ args' = [ratio |-> Some(ratio)]
    /\ UNCHANGED <<buf, edits, target, res>>
    /\ UNCHANGED <<gb, built>>

NextRatio ==
    \/ \E ratio \in RatioArgs : RatioConstruct(ratio)
    \/ Encode
    \/ \E key \in DiscriminantKeys : \E name \in WrongNames : Retag(key, name)
    \/ \E key \in Keys(buf) : DropKey(key)
    \/ Decode("Ratio")

SpecRatio == Init /\ [][NextRatio]_vars

\* C25. The domain [0, 1] is not enforced: a Ratio holds the argument of
\* Ratio::new as it was given, and its encoding decodes as a Ratio of the
\* same value, below 0 and above 1 as well.
C25_DomainNotEnforced ==
    val.ty = "Ratio"
    => /\ val.v = [ratio |-> args.ratio[1]]
       /\ (Decoded /\ target = "Ratio" /\ Encoded)
          => res.ok /\ res.val = [ratio |-> args.ratio[1]]
\* Ratio::new(-1) was encoded and decoded: a Ratio of -1.
C25_Witness ==
    /\ val.ty = "Ratio" /\ args.ratio = Some(-1)
    /\ Decoded /\ target = "Ratio" /\ Encoded
    /\ res.ok /\ res.val.ratio = -1
\* Ratio::new(2) was encoded and decoded: a Ratio of 2.
C25_WitnessAbove ==
    /\ val.ty = "Ratio" /\ args.ratio = Some(2)
    /\ Decoded /\ target = "Ratio" /\ Encoded
    /\ res.ok /\ res.val.ratio = 2

---------------------------------------------------------------------------
\* The gradient builders: the history of the stops.

GradientBuilders == {"linear", "radial", "conic"}

\* C26. In every gradient builder the stops held are the list of the latest
\* stops(list) call, none if there was no such call, followed by the stops
\* of all stop(s) calls after it in the order of the calls: stops(list)
\* discards what was held before it. build is given exactly these stops.
C26_StopsHistory ==
    /\ gb.is \in GradientBuilders => gb.stops = args.stops \o args.pushed
    /\ (built # NoBuilt /\ built.builder.is \in GradientBuilders)
       => /\ built.builder.stops = args.stops \o args.pushed
          /\ built.result.ok => StopsOf(built.result.val) = args.stops \o args.pushed
\* A builder that held stops was given a list of one stop, which discarded
\* them, and then another stop, and was built: the list, then the stop.
C26_Witness ==
    /\ built # NoBuilt /\ built.builder.is = "linear"
    /\ args.discarded > 0
    /\ Len(args.stops) = 1 /\ Len(args.pushed) = 1
    /\ args.stops[1] # args.pushed[1]
    /\ built.result.ok
    /\ StopsOf(built.result.val) = <<args.stops[1], args.pushed[1]>>

---------------------------------------------------------------------------
\* RadiusBuilder: the order of the calls.

\* C27. What a RadiusBuilder builds does not depend on the order of the
\* calls: each of the nine slots holds the argument of the latest call of
\* its setter, whatever was called before or after, so a setter changes its
\* own slot only, and the Radius built is resolved from these nine values;
\* a corner that was set is the corner built, whether the shorthands were
\* set before or after it.
C27_OrderIndependent ==
    /\ gb.is = "radius"
       => \A slot \in Corners \cup Shorthands : gb[slot] = args[slot]
    /\ RadiusBuilt
       => /\ \A slot \in Corners \cup Shorthands :
               built.builder[slot] = args[slot]
          /\ built.result = Resolved(args)
          /\ \A corner \in Corners :
               IsSome(args[corner]) => built.result[corner] = args[corner]
\* top_left was set, then left to another length, nothing else: top_left
\* is the corner built.
C27_Witness ==
    /\ RadiusBuilt
    /\ args.latest = "shorthand"
    /\ IsSome(args.top_left) /\ IsSome(args.left)
    /\ args.top_left # args.left
    /\ \A slot \in (Corners \cup Shorthands) \ {"top_left", "left"} :
         args[slot] = None
    /\ built.result.top_left = args.top_left
\* left was set, then top_left to another length, nothing else: top_left
\* is the corner built.
C27_WitnessCornerLast ==
    /\ RadiusBuilt
    /\ args.latest = "corner"
    /\ IsSome(args.top_left) /\ IsSome(args.left)
    /\ args.top_left # args.left
    /\ \A slot \in (Corners \cup Shorthands) \ {"top_left", "left"} :
         args[slot] = None
    /\ built.result.top_left = args.top_left

---------------------------------------------------------------------------
\* Radius: the buffers it accepts.

Slots == Corners \cup Shorthands
\* The buffer is a map in which each of the nine keys of a Radius has no
\* entry, is null or is the encoding of a Length.
RadiusShaped(b) ==
    /\ b.t = "map"
    /\ \A slot \in Slots :
         \/ SlotKey(slot) \notin DOMAIN b.v
         \/ b.v[SlotKey(slot)] = Null
         \/ DecodesAs("Length", b.v[SlotKey(slot)])
\* What the nine slots of such a buffer hold.
SlotsOf(b) ==
    [slot \in Slots |->
        IF SlotKey(slot) \in DOMAIN b.v /\ b.v[SlotKey(slot)] # Null
        THEN Some(from_bytes("Length", b.v[SlotKey(slot)]).val)
        ELSE None]
\* None of the nine keys carries a Length.
NoLength(b) == \A slot \in Slots : SlotsOf(b)[slot] = None
\* The Radius with four unset corners.
UnsetRadius == RadiusNew(None, None, None, None)

\* C29 (as stated). A map in which none of the nine keys carries a Length
\* decodes as LengthRadius to the Radius with four unset corners.
C29_UnionYieldsRadius ==
    (Decoded /\ target = "LengthRadius" /\ RadiusShaped(buf) /\ NoLength(buf))
    => res = Ok([variant |-> "Radius", value |-> UnsetRadius])

\* C29 (amended). Decoding a Radius succeeds on every map in which each of
\* the nine keys has no entry, is null or is a Length, whatever other keys
\* the map has: the Radius is resolved from the nine slots and has four
\* unset corners when no slot carries a Length. Decoding such a map as
\* LengthRadius never fails: it yields the Length when the map decodes as a
\* Length and this Radius otherwise.
C29_RadiusAcceptsAnyMap ==
    (Decoded /\ RadiusShaped(buf))
    => /\ target = "Radius"
          => /\ res = Ok(Resolved(SlotsOf(buf)))
             /\ NoLength(buf) => res = Ok(UnsetRadius)
       /\ target = "LengthRadius"
          => IF DecodesAs("Length", buf)
             THEN res = Wrapped("Length", buf)
             ELSE /\ res = Ok([variant |-> "Radius",
                               value |-> Resolved(SlotsOf(buf))])
                  /\ NoLength(buf)
                     => res = Ok([variant |-> "Radius", value |-> UnsetRadius])
\* The encoding of an Angle was decoded as LengthRadius: the unset Radius.
C29_Witness ==
    /\ Decoded /\ target = "LengthRadius" /\ Encoded
    /\ val.ty = "Angle"
    /\ RadiusShaped(buf) /\ NoLength(buf)
    /\ res = Ok([variant |-> "Radius", value |-> UnsetRadius])
\* A Radius buffer with a corner and an unknown entry was decoded as a
\* Radius with that corner.
C29_WitnessUnknownEntry ==
    /\ Decoded /\ target = "Radius" /\ edits = {"unknown"}
    /\ val.ty = "Radius"
    /\ RadiusShaped(buf) /\ ~NoLength(buf)
    /\ UnknownKey \in DOMAIN buf.v
    /\ res.ok /\ res.val # UnsetRadius

---------------------------------------------------------------------------
\* The composites, and the scalars inside their buffers.

Composites == {"Center", "Stop", "Color", "Gradient", "Radius"}
Scalars == {"Ratio", "Angle", "Length"}

\* The keys of a map under which it names one of the scalars.
ScalarKeys(b) ==
    IF b.t # "map" THEN {}
    ELSE {key \in DiscriminantKeys \cap DOMAIN b.v :
            \E ty \in Scalars : b.v[key] = Text(TYPE_NAME(ty))}
\* What the other side can make of the map of a scalar: another
\* discriminant, no discriminant, or a field less.
ScalarEdits(kind, b) ==
    CASE kind = "retag" ->
            {Map([b.v EXCEPT ![key] = Text(name)]) :
                key \in ScalarKeys(b),
                name \in {<<"unknown">>, TYPE_NAME("Duration")}}
      [] kind = "untag" ->
            {Map([k \in DOMAIN b.v \ {key} |-> b.v[k]]) : key \in ScalarKeys(b)}
      [] kind = "drop" ->
            IF ScalarKeys(b) = {} THEN {}
            ELSE {Map([k \in DOMAIN b.v \ {key} |-> b.v[k]]) :
                    key \in DOMAIN b.v \ ScalarKeys(b)}
\* The buffers that differ from b in one scalar inside it, at any depth.
RECURSIVE NestedEdits(_, _)
NestedEdits(kind, b) ==
    IF b.t = "map"
    THEN UNION {{Map([b.v EXCEPT ![key] = c]) :
                    c \in ScalarEdits(kind, b.v[key])
                          \cup NestedEdits(kind, b.v[key])} :
                key \in DOMAIN b.v}
    ELSE IF b.t = "array"
    THEN UNION {{Array([b.v EXCEPT ![i] = c]) :
                    c \in ScalarEdits(kind, b.v[i])
                          \cup NestedEdits(kind, b.v[i])} :
                i \in Indices(b.v)}
    ELSE {}

NestedKinds == {"retag", "untag", "drop"}

\* The other side writes one scalar inside the encoding of a composite
\* wrongly.
Spoil(kind, b) ==
    /\ val # NoValue
    /\ val.ty \in Composites
    /\ buf # NoBuf
    /\ edits = {}
    /\ b \in NestedEdits(kind, buf)
    /\ buf' = b
    /\ edits' = {"nested", kind}
    /\ UNCHANGED val
    /\ target' = "none"
    /\ res' = NoRes
    /\ UNCHANGED builders

NextNested ==
    \/ \E ty \in Composites : \E v \in Values(ty) : Construct(ty, v)
    \/ Encode
    \/ \E kind \in NestedKinds : \E b \in NestedEdits(kind, buf) : Spoil(kind, b)
    \/ \E ty \in Composites : Decode(ty)

SpecNested == Init /\ [][NextNested]_vars

\* A scalar inside the encoding of a composite was written wrongly, and
\* the buffer was decoded as the composite.
SpoiledDecoded == Decoded /\ "nested" \in edits /\ target = val.ty

\* C30. The validation of the scalars inside a composite propagates: the
\* encoding of a Center, Stop, Color, Gradient or Radius in which one
\* Ratio, Angle or Length, at any depth, has another discriminant, no
\* discriminant or a field less does not decode as the composite. The error
\* is that of the scalar: TypeMismatch for another discriminant,
\* MalformedEncoding for a missing entry.
C30_NestedValidation ==
    SpoiledDecoded
    => /\ ~res.ok
       /\ "retag" \in edits => Failed(res, "TypeMismatch")
       /\ edits \cap {"untag", "drop"} # {} => Failed(res, "MalformedEncoding")
\* A radial gradient whose stops hold a color with a scalar of another
\* discriminant was refused.
C30_Witness ==
    /\ SpoiledDecoded /\ "retag" \in edits
    /\ val.ty = "Gradient" /\ val.v.variant = "Radial"
    /\ to_bytes("Gradient", val.v).v[<<"stops">>] # buf.v[<<"stops">>]
    /\ ~res.ok
\* A Radius with a corner that lost its discriminant was refused.
C30_WitnessRadius ==
    /\ SpoiledDecoded /\ "untag" \in edits
    /\ val.ty = "Radius"
    /\ ~res.ok

====
